---- MODULE Spec2Model ----
(***************************************************************************)
(* The proxy request-handling engine of proxy_interceptor/proxy_server.py: *)
(* the key and model rotation cursors, the retry/fallback loop of          *)
(* chat_completions, the intercept buffer, and the SSE capture generator   *)
(* _stream_response_generator.                                             *)
(*                                                                         *)
(* Spec       : concurrent chat-completions requests on a started server.  *)
(*              One step of a request is the code between two awaits of    *)
(*              the single asyncio event loop.                             *)
(* SpecStream : one run of _stream_response_generator over a byte stream   *)
(*              that the transport cuts into chunks at arbitrary places.   *)
(* SpecBuffer : requests recorded into the bounded intercept buffer, with  *)
(*              clear_requests, next to the log of what was recorded.      *)
(* SpecLifecycle : start() and stop() of the server, the uvicorn serve     *)
(*              task, reconfiguration by the window, and requests served   *)
(*              while the lifecycle runs.                                  *)
(* SpecModels : GET /v1/models next to chat-completions requests.          *)
(* SpecErrors : chat completions with keys the HTTP client may refuse, and *)
(*              the text of the error that ends a failed request.          *)
(* SpecList   : the exchanges the server emits, the queued signals of the  *)
(*              runner's bridge and the batched list of                    *)
(*              request_list_widget.py. SpecClear adds "Clear All".        *)
(* SpecWindow : the toggle button, the saved port and the coroutines of    *)
(*              AsyncRunner in main_window.py around start() and stop().   *)
(*              SpecRestart is the window in an environment that does not  *)
(*              interfere, with every queued slot, timer and coroutine     *)
(*              eventually run.                                            *)
(***************************************************************************)
EXTENDS Integers, Sequences, FiniteSets, TLC

\* ------------------------------------------------------------------ bounds
MaxKeys == 2
MaxModels == 3
MaxRequests == 3
MaxInFlight == 2
MaxFrames == 2
MaxBufferModels == 2
MaxLifecycleModels == 2
MaxLifecycleRequests == 2
MaxModelsRequests == 2
MaxListRequests == 3
MaxRestartTimers == 1
MaxSignals == 2

\* ProxyConfig.max_requests (1000 in the source), scaled down.
max_requests == 2

Requests == 1 .. MaxRequests

\* Python's None for an index or a status that is not set.
NoIndex == 0 - 1

\* The status codes, other than 200 and 429, the upstream answers with here: one
\* that the proxy itself never produces stands for all of them.
UpstreamErrorStatuses == {404}

VARIABLES
    openrouter_api_keys,    \* config.openrouter_api_keys
    openrouter_api_models,  \* config.openrouter_api_models
    log_requests,           \* config.log_requests
    _current_key_index,
    _current_model_index,
    intercepted_requests,   \* the bounded deque of recorded exchanges
    is_running,
    req,                    \* per request: the locals of chat_completions
    key_order,              \* the requests, in the order of their key-cursor read
    recorded_log,           \* history: the entries appended since the last clear
    \* ---- start() and stop()
    _client,                \* "none", or the AsyncClient: "open" or "closed"
    server,                 \* self.server: "none" or "live"
    should_exit,            \* self.server.should_exit
    server_task,            \* self.server_task: "none", or the state of the task
    foreign_listener,       \* another process listens on config.port
    start_pc,               \* where start() is
    attempt,                \* the local `attempt` of start()
    start_result,           \* how the last start() ended
    stop_pc,                \* where stop() is
    stops_in_a_row,         \* stop() calls ended since the last step of a start()
    \* ---- _stream_response_generator
    stream_pending,         \* bytes the upstream has not delivered yet
    captured_chunks,
    extracted_content,
    forwarded,              \* chunks yielded to the client
    response,               \* intercepted_request.response
    notifications,          \* calls of on_streaming_update
    notification_raised,    \* for each of them, whether the callback raised
    on_intercept_calls,     \* calls of on_intercept: whether each raised
    api_response_open,      \* the upstream response is not closed yet
    gen_pc,
    \* ---- GET /v1/models
    models_req,             \* the locals of get_models, and how many ran
    \* ---- the error texts of chat_completions
    last_error_detail,      \* history: per request, the local last_error_detail
    \* ---- the window's request list
    signals,                \* bridge signals emitted and not yet delivered
    requests,               \* RequestListWidget.requests
    _pending,
    request_list,           \* the items of the QListWidget
    _flush_timer,           \* the single-shot timer is active
    cleared,                \* history: no exchange was intercepted since a clear
    \* ---- the window and its AsyncRunner
    async_runner,           \* the runner's flags, loop, coroutines and server
    main_window,            \* the toggle button, the URL label, the port field
    port,                   \* proxy_server.config.port
    server_port             \* the port of the uvicorn.Config of self.server

orchVars == <<openrouter_api_keys, openrouter_api_models, log_requests,
              _current_key_index, _current_model_index, intercepted_requests,
              is_running, req, key_order>>

lifeVars == <<_client, server, should_exit, server_task, foreign_listener,
              start_pc, attempt, start_result, stop_pc, stops_in_a_row>>

streamVars == <<stream_pending, captured_chunks, extracted_content, forwarded,
                response, notifications, notification_raised,
                on_intercept_calls, api_response_open, gen_pc>>

\* History of the buffer, kept by the specification that checks its eviction.
histVars == <<recorded_log>>

modelsVars == <<models_req>>

\* History of the error texts, kept by the specification that checks them.
errorVars == <<last_error_detail>>

\* What chat_completions, the generator and the lifecycle leave alone.
listVars == <<signals, requests, _pending, request_list, _flush_timer, cleared>>

windowVars == <<async_runner, main_window, port, server_port>>

restVars == <<modelsVars, errorVars, listVars, windowVars>>

vars == <<orchVars, lifeVars, streamVars, histVars, restVars>>

\* ------------------------------------------------------------ configuration
KeyList(n) == [k \in 1 .. n |-> <<"key", k>>]

\* The lists of n keys, each one sendable as a header value ("key") or not
\* ("key\r", a key that holds a carriage return): ProxyConfig takes any list
\* of strings.
KeyLists(n) == [1 .. n -> {"key", "key\r"}]

KeyListOf(tags) == [k \in DOMAIN tags |-> <<tags[k], k>>]

\* h11 accepts a header value without NUL, CR or LF.
header_value_legal(key) == key[1] = "key"

ModelList(n) == [m \in 1 .. n |-> <<"model", m>>]

\* ------------------------------------------------------------ rotation state
\* Three faulty variants of _get_next_key_index, which the properties of the key
\* cursor must tell from it: one returns the value after the advance, one
\* forgets the advance, one raises 500 for an empty key list.
get_next_key_index_postadvance ==
    IF Len(openrouter_api_keys) = 0
    THEN [raised |-> TRUE, status |-> 503, idx |-> NoIndex,
          next |-> _current_key_index]
    ELSE [raised |-> FALSE, status |-> 0,
          idx |-> (_current_key_index + 1) % Len(openrouter_api_keys),
          next |-> (_current_key_index + 1) % Len(openrouter_api_keys)]

get_next_key_index_noadvance ==
    IF Len(openrouter_api_keys) = 0
    THEN [raised |-> TRUE, status |-> 503, idx |-> NoIndex,
          next |-> _current_key_index]
    ELSE [raised |-> FALSE, status |-> 0, idx |-> _current_key_index,
          next |-> _current_key_index]

get_next_key_index_status500 ==
    IF Len(openrouter_api_keys) = 0
    THEN [raised |-> TRUE, status |-> 500, idx |-> NoIndex,
          next |-> _current_key_index]
    ELSE [raised |-> FALSE, status |-> 0, idx |-> _current_key_index,
          next |-> (_current_key_index + 1) % Len(openrouter_api_keys)]

\* _get_next_key_index: read-then-advance; raises 503 when no key is configured.
get_next_key_index ==
    IF Len(openrouter_api_keys) = 0
    THEN [raised |-> TRUE, status |-> 503, idx |-> NoIndex,
          next |-> _current_key_index]
    ELSE [raised |-> FALSE, status |-> 0, idx |-> _current_key_index,
          next |-> (_current_key_index + 1) % Len(openrouter_api_keys)]

\* _get_next_model_index: read-then-advance. chat_completions never calls it.
get_next_model_index ==
    IF Len(openrouter_api_models) = 0
    THEN [raised |-> TRUE, status |-> 503, idx |-> NoIndex,
          next |-> _current_model_index]
    ELSE [raised |-> FALSE, status |-> 0, idx |-> _current_model_index,
          next |-> (_current_model_index + 1) % Len(openrouter_api_models)]

\* A faulty variant of the peek below: the read-then-advance above in its place.
peek_model_index_pop == get_next_model_index

\* current_model_index = self._current_model_index: a read that leaves the
\* cursor where it is, and that no empty model list stops.
peek_model_index ==
    [raised |-> FALSE, status |-> 0, idx |-> _current_model_index,
     next |-> _current_model_index]

\* ------------------------------------------------------------ inbound body
\* A faulty variant of request_json that takes an unparsable body for an object.
request_json_lenient(body) ==
    CASE body = "invalid_json" -> [exc |-> "none", stream_allowed |-> TRUE]
      [] body = "not_object" -> [exc |-> "AttributeError", stream_allowed |-> FALSE]
      [] OTHER -> [exc |-> "none", stream_allowed |-> TRUE]

\* await request.json(), then request_data.get("stream", False): the exception
\* that leaves them for each kind of body.
request_json(body) ==
    CASE body = "invalid_json" -> [exc |-> "JSONDecodeError", stream_allowed |-> FALSE]
      [] body = "not_object" -> [exc |-> "AttributeError", stream_allowed |-> FALSE]
      [] OTHER -> [exc |-> "none", stream_allowed |-> TRUE]

\* ------------------------------------------------------------- the upstream
\* What one upstream call can end in: a response with a status (for a buffered
\* 200, a body that is a JSON document or not; for a streamed error status, a
\* body whose aread() succeeds or raises httpx.ReadError), or an
\* httpx.RequestError raised by the call itself.
UpstreamOutcomes(stream) ==
    {[kind |-> "response", status |-> 200, body_is_json |-> ~stream,
      aread_fails |-> FALSE]}
    \cup (IF stream
          THEN {[kind |-> "response", status |-> s, body_is_json |-> FALSE,
                 aread_fails |-> TRUE] : s \in UpstreamErrorStatuses}
          ELSE {[kind |-> "response", status |-> 200, body_is_json |-> FALSE,
                 aread_fails |-> FALSE]})
    \cup {[kind |-> "response", status |-> 429, body_is_json |-> FALSE,
           aread_fails |-> FALSE]}
    \cup {[kind |-> "response", status |-> s, body_is_json |-> FALSE,
           aread_fails |-> FALSE] : s \in UpstreamErrorStatuses}
    \cup {[kind |-> "request_error", status |-> 0, body_is_json |-> FALSE,
           aread_fails |-> FALSE]}

NoOutcome ==
    [kind |-> "none", status |-> 0, body_is_json |-> FALSE, aread_fails |-> FALSE]

AllOutcomes == UpstreamOutcomes(TRUE) \cup UpstreamOutcomes(FALSE)

\* The outcomes of an upstream whose error bodies can always be read.
ReadableOutcomes == {o \in AllOutcomes : ~o.aread_fails}

\* ------------------------------------------------------ the intercept buffer
\* A faulty variant of deque_append that never evicts.
deque_append_unbounded(d, x) == Append(d, x)

\* deque(maxlen=max_requests).append: a full deque drops its oldest entry.
deque_append(d, x) ==
    IF Len(d) >= max_requests THEN Append(Tail(d), x) ELSE Append(d, x)

\* get_requests(): list(self.intercepted_requests)
get_requests == intercepted_requests

\* ---------------------------------------------------- one model attempt
\* self.on_intercept(intercepted) inside try/except Exception (312-317,
\* 426-431): the exception that leaves the call site when the callback raises
\* or returns.
on_intercept_call(raises) == "none"

\* The body of the try block for one attempt: which exception leaves it, whether
\* the handler returned, whether the exchange was recorded, last_error_status,
\* and whether a streamed response is left open: neither closed here nor
\* handed to a capture generator.
TryBody(o, stream, last_iter, last_status, cb_raises) ==
    CASE o.kind = "request_error" ->
            [exc |-> "RequestError", returned |-> FALSE, recorded |-> FALSE,
             last_error_status |-> last_status, left_open |-> FALSE]
      [] o.kind = "response" /\ o.status = 200 /\ stream ->
            \* `intercepted` is bound only under config.log_requests
            IF log_requests
            THEN LET c == on_intercept_call(cb_raises)
                 IN [exc |-> c, returned |-> (c = "none"), recorded |-> TRUE,
                     last_error_status |-> last_status,
                     left_open |-> (c # "none")]
            ELSE [exc |-> "UnboundLocalError", returned |-> FALSE,
                  recorded |-> FALSE, last_error_status |-> last_status,
                  left_open |-> TRUE]
      [] o.kind = "response" /\ o.status = 200 /\ ~stream ->
            \* JSONResponse(content=api_response.json()) after the recording
            LET c == IF log_requests THEN on_intercept_call(cb_raises) ELSE "none"
            IN IF c # "none"
               THEN [exc |-> c, returned |-> FALSE, recorded |-> TRUE,
                     last_error_status |-> last_status, left_open |-> FALSE]
               ELSE IF o.body_is_json
               THEN [exc |-> "none", returned |-> TRUE, recorded |-> log_requests,
                     last_error_status |-> last_status, left_open |-> FALSE]
               ELSE [exc |-> "JSONDecodeError", returned |-> FALSE,
                     recorded |-> log_requests,
                     last_error_status |-> last_status, left_open |-> FALSE]
      [] o.kind = "response" /\ o.status = 429 ->
            \* streamed: aread() under try/except, then aclose()
            [exc |-> "none", returned |-> FALSE, recorded |-> FALSE,
             last_error_status |-> 429, left_open |-> FALSE]
      [] stream /\ o.aread_fails ->
            \* aread() raises before aclose() and before last_error_status
            [exc |-> "RequestError", returned |-> FALSE, recorded |-> FALSE,
             last_error_status |-> last_status, left_open |-> TRUE]
      [] OTHER ->
            [exc |-> IF last_iter THEN "HTTPException" ELSE "none",
             returned |-> FALSE, recorded |-> FALSE,
             last_error_status |-> o.status, left_open |-> FALSE]

\* The except clauses of the attempt: `except httpx.RequestError`, then
\* `except Exception`, which also catches the HTTPException raised in the try.
ExceptHandlers(t, last_iter) ==
    CASE t.exc = "none" ->
            [last_error_status |-> t.last_error_status, raised |-> FALSE]
      [] t.exc = "RequestError" ->
            [last_error_status |-> 503, raised |-> last_iter]
      [] OTHER ->
            [last_error_status |-> 500, raised |-> last_iter]

\* last_error_detail before the first attempt.
NoErrorDetail ==
    [prefix |-> "All API models failed.", key_index |-> NoIndex,
     model |-> <<>>, model_index |-> NoIndex, status |-> 0, exc |-> "none",
     quoted |-> {}]

\* What `{e.__class__.__name__} - {e}` can read for the exception that left the
\* try block: its class, and the key values its message quotes. A call whose
\* Authorization header h11 refuses ends in a ConnectError, or in
\* LocalProtocolError("Illegal header value b'Bearer <key>'").
ExceptionTexts(call, o, t) ==
    CASE t.exc = "RequestError" /\ o.kind = "request_error" ->
            {[exc |-> "ConnectError", quoted |-> {}]}
            \cup (IF header_value_legal(call.key) THEN {}
                  ELSE {[exc |-> "LocalProtocolError", quoted |-> {call.key}]})
      [] t.exc = "RequestError" -> {[exc |-> "ReadError", quoted |-> {}]}
      [] OTHER -> {[exc |-> t.exc, quoted |-> {}]}

\* The f-strings that build error_detail: the 429 text, the text for another
\* status (each followed by the upstream's body), the text of
\* `except httpx.RequestError` and the text of `except Exception`.
error_detail(key_index, call, o, t, e) ==
    CASE t.exc = "none" /\ o.status = 429 ->
            [prefix |-> "Rate limit exceeded for API key index",
             key_index |-> key_index, model |-> call.model,
             model_index |-> call.model_index, status |-> 429, exc |-> "none",
             quoted |-> {}]
      [] t.exc = "RequestError" ->
            [prefix |-> "HTTPX Request Error with API key index",
             key_index |-> key_index, model |-> call.model,
             model_index |-> call.model_index, status |-> 0, exc |-> e.exc,
             quoted |-> e.quoted]
      [] t.exc \in {"none", "HTTPException"} /\ ~(o.status = 200) ->
            \* at the last attempt the HTTPException carrying this text is
            \* caught by `except Exception`, which wraps it in its own
            [prefix |-> IF t.exc = "none" THEN "Error with API key index"
                        ELSE "Unexpected error processing request with API key index",
             key_index |-> key_index, model |-> call.model,
             model_index |-> call.model_index, status |-> o.status,
             exc |-> t.exc, quoted |-> {}]
      [] OTHER ->
            [prefix |-> "Unexpected error processing request with API key index",
             key_index |-> key_index, model |-> call.model,
             model_index |-> call.model_index, status |-> 0, exc |-> e.exc,
             quoted |-> e.quoted]

\* The cursor after the loop ran out of models.
AdvanceModelCursor(cursor, n) == (cursor + 1) % n

\* ------------------------------------------------------------------ requests
IdleRequest ==
    [pc |-> "idle", body |-> "none", is_streaming |-> FALSE,
     key_index |-> NoIndex, current_model_index |-> NoIndex, num_models |-> 0,
     i |-> 0, last_error_status |-> 500, calls |-> <<>>, first_200 |-> 0,
     last_outcome |-> NoOutcome, status_code |-> 0, payload |-> NoIndex,
     exit |-> "none", unclosed |-> 0, client_lost |-> FALSE, api_key |-> <<>>,
     recorded |-> FALSE, timestamp |-> NoIndex, latency_ms |-> NoIndex]

InFlight == {r \in Requests : req[r].pc = "awaiting"}

\* The model the inbound bodies name: not one of the configured ones.
InboundModel == <<"model", 0>>

\* A faulty variant of UpstreamCall that counts from the cursor as it is now.
UpstreamCall_live_cursor(rq, i) ==
    [model_index |-> (_current_model_index + i) % rq.num_models,
     model |-> openrouter_api_models[
                   ((_current_model_index + i) % rq.num_models) + 1],
     key |-> rq.api_key]

\* A faulty variant of UpstreamCall that forwards the inbound body as it came.
UpstreamCall_inbound_model(rq, i) ==
    [model_index |-> (rq.current_model_index + i) % rq.num_models,
     model |-> InboundModel,
     key |-> rq.api_key]

\* The upstream call of attempt i: request_data["model"] is overwritten with
\* the name found at model_index in the list as it is now, and the
\* Authorization header carries the local api_key read when the request
\* arrived.
UpstreamCall(rq, i) ==
    [model_index |-> (rq.current_model_index + i) % rq.num_models,
     model |-> openrouter_api_models[
                   ((rq.current_model_index + i) % rq.num_models) + 1],
     key |-> rq.api_key]

Finish(rq, status, exit) ==
    [rq EXCEPT !.pc = "done", !.status_code = status, !.exit = exit]

\* The uvicorn task of this server accepts connections.
Listening == server_task = "serving" /\ ~should_exit

\* Time, for one request, is counted in the upstream calls of the request that
\* have been answered: 0 when the request arrives, i when iteration i of the
\* loop begins, i + 1 when the call of iteration i has been answered.
\* HttpRequest(timestamp=datetime.now(), ...) is built inside the loop, at the
\* top of iteration i.
HttpRequest_timestamp(i) == i

\* latency_ms = (datetime.now() - http_request.timestamp), computed when the
\* call of iteration i has been answered 200.
latency_ms(rq) == (rq.i + 1) - rq.timestamp

\* Attempt i begins. The model name is looked up in the list as it is now,
\* outside the try: an index past its end is an IndexError handled by nobody.
\* With self._client closed or None, build_request/post raise before any
\* await; `except Exception` sets 500 and goes on, so this attempt and all the
\* later ones fail in one go and the last one raises.
BeginAttempt(rq, i) ==
    IF (rq.current_model_index + i) % rq.num_models >= Len(openrouter_api_models)
    THEN Finish(rq, 500, "crashed")
    ELSE IF _client = "open"
    THEN [rq EXCEPT !.pc = "awaiting", !.i = i,
                    !.timestamp = HttpRequest_timestamp(i),
                    !.calls = Append(rq.calls, UpstreamCall(rq, i))]
    ELSE Finish([rq EXCEPT !.i = rq.num_models - 1, !.last_error_status = 500,
                           !.client_lost = TRUE],
                500, "raised_in_loop")

\* chat_completions from the arrival of the request to its first await of the
\* upstream: body parsing, key selection, the peek at the model cursor.
chat_completions(r, body, stream) ==
    /\ Listening
    /\ req[r].pc = "idle"
    \* requests are numbered in the order of their arrival
    /\ \A q \in Requests : q < r => req[q].pc # "idle"
    /\ Cardinality(InFlight) < MaxInFlight
    /\ LET p == request_json(body)
           rq0 == [req[r] EXCEPT !.body = body,
                                 !.is_streaming = (p.stream_allowed /\ stream)]
           k == get_next_key_index
           m == peek_model_index
       IN CASE p.exc = "JSONDecodeError" ->
                 /\ req' = [req EXCEPT ![r] = Finish(rq0, 400, "raised_400")]
                 /\ UNCHANGED <<_current_key_index, _current_model_index, key_order>>
            [] p.exc = "AttributeError" ->
                 \* handled by nobody: the server answers 500
                 /\ req' = [req EXCEPT ![r] = Finish(rq0, 500, "crashed")]
                 /\ UNCHANGED <<_current_key_index, _current_model_index, key_order>>
            [] p.exc = "none" /\ k.raised ->
                 /\ req' = [req EXCEPT ![r] =
                        Finish(rq0, k.status, "raised_no_keys")]
                 /\ UNCHANGED <<_current_key_index, _current_model_index, key_order>>
            [] OTHER ->
                 LET rq1 == [rq0 EXCEPT
                               !.key_index = k.idx,
                               !.api_key =
                                   IF k.idx < Len(openrouter_api_keys)
                                   THEN openrouter_api_keys[k.idx + 1]
                                   ELSE <<>>,
                               !.current_model_index = m.idx,
                               !.num_models = Len(openrouter_api_models)]
                 IN /\ _current_key_index' = k.next
                    /\ _current_model_index' = m.next
                    /\ key_order' = Append(key_order, r)
                    /\ IF k.idx >= Len(openrouter_api_keys)
                       THEN \* openrouter_api_keys[key_index]: IndexError,
                            \* handled by nobody
                            req' = [req EXCEPT ![r] = Finish(rq1, 500, "crashed")]
                       ELSE IF rq1.num_models = 0
                       THEN \* the loop body never runs; the modulo after the
                            \* loop divides by zero, handled by nobody
                            req' = [req EXCEPT ![r] = Finish(rq1, 500, "crashed")]
                       ELSE req' = [req EXCEPT ![r] = BeginAttempt(rq1, 0)]
    /\ UNCHANGED <<openrouter_api_keys, openrouter_api_models, log_requests,
                   intercepted_requests, is_running>>
    /\ UNCHANGED lifeVars
    /\ UNCHANGED streamVars
    /\ UNCHANGED <<histVars, restVars>>

\* The upstream answers attempt i: the rest of this loop iteration, then either
\* the return, the raise, the next attempt's call, or the code after the loop.
HandleUpstreamResponse(r, o, cb_raises) ==
    /\ req[r].pc = "awaiting"
    /\ o \in UpstreamOutcomes(req[r].is_streaming)
    /\ LET rq == req[r]
           last_iter == (rq.i = rq.num_models - 1)
           t == TryBody(o, rq.is_streaming, last_iter, rq.last_error_status,
                        cb_raises)
           h == ExceptHandlers(t, last_iter)
           model_index == (rq.current_model_index + rq.i) % rq.num_models
           rq1 == [rq EXCEPT
                     !.last_outcome = o,
                     !.first_200 = IF rq.first_200 = 0 /\ o.status = 200
                                   THEN rq.i + 1 ELSE rq.first_200,
                     !.last_error_status = h.last_error_status,
                     !.unclosed = IF t.left_open THEN rq.unclosed + 1
                                  ELSE rq.unclosed,
                     \* an exchange was appended for this request
                     !.recorded = (rq.recorded \/ t.recorded),
                     !.latency_ms =
                         IF o.kind = "response" /\ o.status = 200
                            /\ ~rq.is_streaming
                         THEN latency_ms(rq) ELSE rq.latency_ms]
       IN /\ intercepted_requests' =
                IF t.recorded
                THEN deque_append(intercepted_requests,
                                  [request |-> r, model_index |-> model_index,
                                   status_code |-> 200,
                                   is_streaming |-> rq.is_streaming])
                ELSE intercepted_requests
          /\ IF t.returned
             THEN /\ req' = [req EXCEPT ![r] =
                        [Finish(rq1, 200, "returned") EXCEPT
                            !.payload = model_index]]
                  /\ UNCHANGED _current_model_index
             ELSE IF h.raised
             THEN /\ req' = [req EXCEPT ![r] =
                        Finish(rq1, h.last_error_status, "raised_in_loop")]
                  /\ UNCHANGED _current_model_index
             ELSE IF ~last_iter
             THEN /\ req' = [req EXCEPT ![r] = BeginAttempt(rq1, rq.i + 1)]
                  /\ UNCHANGED _current_model_index
             ELSE \* the loop ran out of models
                  /\ _current_model_index' =
                        AdvanceModelCursor(_current_model_index,
                                           Len(openrouter_api_models))
                  /\ req' = [req EXCEPT ![r] =
                        Finish(rq1, h.last_error_status, "raised_exhausted")]
    /\ UNCHANGED <<openrouter_api_keys, openrouter_api_models, log_requests,
                   _current_key_index, is_running, key_order>>
    /\ UNCHANGED lifeVars

\* The step of a request on a server whose on_intercept returns normally.
UpstreamResponds(r, o) ==
    /\ HandleUpstreamResponse(r, o, FALSE)
    /\ UNCHANGED streamVars
    /\ UNCHANGED <<histVars, restVars>>

\* ----------------------------------------------- _stream_response_generator
\* The upstream's bytes are a sequence of text fragments. A JSON payload is two
\* fragments, its opening part and its closing brace: cut between them, neither
\* part is a JSON document. "{He" "}" stands for
\* {"choices":[{"delta":{"content":"He"}}]}, "{role" "}" for a delta without
\* content, "{null" "}" for "delta": null, "oops" for text that is no JSON and
\* "0xFF" for a byte that is no UTF-8.
FrameKinds ==
    {<<"data: ", "{He", "}", "\n">>,
     <<"data: ", "{llo", "}", "\n">>,
     <<"data: ", "{role", "}", "\n">>,
     <<"data: ", "{null", "}", "\n">>,
     <<"data: ", "oops", "\n">>,
     <<"data: ", "0xFF", "\n">>,
     <<"data: ", "[DONE]", "\n">>,
     <<"\n">>}

RECURSIVE Streams(_)
Streams(n) ==
    IF n = 0 THEN {<<>>}
    ELSE Streams(n - 1) \cup {s \o f : s \in Streams(n - 1), f \in FrameKinds}

RECURSIVE Flatten(_)
Flatten(seqs) ==
    IF seqs = <<>> THEN <<>> ELSE Head(seqs) \o Flatten(Tail(seqs))

\* str.split("\n")
RECURSIVE split_lines(_, _)
split_lines(text, line) ==
    IF text = <<>> THEN <<line>>
    ELSE IF Head(text) = "\n" THEN <<line>> \o split_lines(Tail(text), <<>>)
    ELSE split_lines(Tail(text), Append(line, Head(text)))

\* chunk.decode("utf-8")
decode_fails(bytes) == \E j \in 1 .. Len(bytes) : bytes[j] = "0xFF"

\* json.loads(json_data) and the look-up of choices[0].delta.content
json_content(json_data) ==
    CASE json_data = <<"{He", "}">> -> [exc |-> "none", content |-> <<"He">>]
      [] json_data = <<"{llo", "}">> -> [exc |-> "none", content |-> <<"llo">>]
      [] json_data = <<"{role", "}">> -> [exc |-> "none", content |-> <<>>]
      [] json_data = <<"{null", "}">> -> [exc |-> "AttributeError", content |-> <<>>]
      [] OTHER -> [exc |-> "JSONDecodeError", content |-> <<>>]

\* line.startswith("data: ") and not line.startswith("data: [DONE]")
is_data_line(line) ==
    /\ Len(line) >= 1
    /\ line[1] = "data: "
    /\ ~(Len(line) >= 2 /\ line[2] = "[DONE]")

\* The for loop over the lines of one chunk, up to the exception that leaves it.
RECURSIVE process_lines(_, _, _)
process_lines(lines, extracted, had_content) ==
    IF lines = <<>>
    THEN [extracted |-> extracted, had_content |-> had_content, exc |-> "none"]
    ELSE LET line == Head(lines)
             json_data == Tail(line)
         IN IF is_data_line(line) /\ json_data # <<>>
            THEN LET j == json_content(json_data)
                 IN IF j.exc # "none"
                    THEN [extracted |-> extracted, had_content |-> had_content,
                          exc |-> j.exc]
                    ELSE IF j.content # <<>>
                    THEN process_lines(Tail(lines), extracted \o j.content, TRUE)
                    ELSE process_lines(Tail(lines), extracted, had_content)
            ELSE process_lines(Tail(lines), extracted, had_content)

\* The inner try of the chunk loop. (json.JSONDecodeError, UnicodeDecodeError,
\* KeyError, IndexError) are swallowed; any other exception leaves the loop.
process_chunk(chunk, extracted) ==
    IF decode_fails(chunk)
    THEN [extracted |-> extracted, had_content |-> FALSE, exc |-> "none"]
    ELSE LET p == process_lines(split_lines(chunk, <<>>), extracted, FALSE)
         IN [p EXCEPT !.exc = IF p.exc = "JSONDecodeError" THEN "none" ELSE p.exc]

\* No response record yet.
NoResponse ==
    [body |-> <<>>, raw_body |-> <<>>, is_streaming |-> FALSE,
     streaming_content |-> <<>>, streaming_complete |-> FALSE,
     latency_ms |-> "none"]

\* A faulty variant of StreamingResponse: a record that looks finished.
StreamingResponse_complete ==
    [body |-> <<"[Streaming in progress...]">>,
     raw_body |-> <<"[Streaming in progress...]">>,
     is_streaming |-> FALSE, streaming_content |-> <<>>,
     streaming_complete |-> TRUE, latency_ms |-> "none"]

\* The response record a streaming 200 is recorded with.
StreamingResponse ==
    [body |-> <<"[Streaming in progress...]">>,
     raw_body |-> <<"[Streaming in progress...]">>,
     is_streaming |-> TRUE, streaming_content |-> <<>>,
     streaming_complete |-> FALSE, latency_ms |-> "none"]

\* A faulty variant of finalise that always shows the raw SSE text.
finalise_raw_content(captured, extracted, resp, notifs) ==
    IF captured = <<>> \/ decode_fails(Flatten(captured))
    THEN [response |-> resp, notifications |-> notifs]
    ELSE LET full_content == Flatten(captured)
             done == [resp EXCEPT !.raw_body = full_content,
                                  !.body = full_content,
                                  !.streaming_content = full_content,
                                  !.is_streaming = FALSE,
                                  !.streaming_complete = TRUE,
                                  !.latency_ms = "since_request"]
         IN [response |-> done, notifications |-> Append(notifs, done)]

\* The finally clause: the record and the notifications it leaves.
finalise(captured, extracted, resp, notifs) ==
    IF captured = <<>> \/ decode_fails(Flatten(captured))
    THEN [response |-> resp, notifications |-> notifs]
    ELSE LET full_content == Flatten(captured)
             shown == IF extracted # <<>> THEN extracted ELSE full_content
             done == [resp EXCEPT !.raw_body = full_content,
                                  !.body = shown,
                                  !.streaming_content = shown,
                                  !.is_streaming = FALSE,
                                  !.streaming_complete = TRUE,
                                  !.latency_ms = "since_request"]
         IN [response |-> done, notifications |-> Append(notifs, done)]

\* self.on_streaming_update(intercepted_request) inside try/except Exception
\* (155-158, 199-202): the exception that leaves the call site. The second
\* definition is a faulty variant that lets the callback's exception through.
on_streaming_update_call_unguarded(raises) ==
    IF raises THEN "Exception" ELSE "none"

on_streaming_update_call(raises) == "none"

\* The finally clause with its call of the callback, which raises or not.
finally_clause(captured, extracted, resp, notifs, raised, cb_raises) ==
    LET f == finalise(captured, extracted, resp, notifs)
    IN [response |-> f.response, notifications |-> f.notifications,
        notification_raised |->
            IF Len(f.notifications) > Len(notifs)
            THEN Append(raised, cb_raises) ELSE raised]

\* The upstream's answer to a streaming call.
Streaming200 ==
    [kind |-> "response", status |-> 200, body_is_json |-> FALSE,
     aread_fails |-> FALSE]

\* The streaming attempt of request 1 is answered 200: the exchange is
\* recorded, on_intercept is called, and the StreamingResponse returned to the
\* server starts the generator.
ReturnStreamingResponse ==
    /\ gen_pc = "opening"
    /\ \E cb_raises \in BOOLEAN :
          /\ HandleUpstreamResponse(1, Streaming200, cb_raises)
          /\ on_intercept_calls' =
                IF intercepted_requests' # intercepted_requests
                THEN Append(on_intercept_calls, cb_raises)
                ELSE on_intercept_calls
    /\ gen_pc' = IF req'[1].exit = "returned" THEN "iterating" ELSE "failed"
    /\ response' = StreamingResponse
    /\ UNCHANGED <<stream_pending, captured_chunks, extracted_content, forwarded,
                   notifications, notification_raised, api_response_open>>
    /\ UNCHANGED histVars

StreamOpens ==
    /\ ReturnStreamingResponse
    /\ UNCHANGED restVars

\* One chunk of k fragments arrives: it is captured, scanned, notified about
\* and yielded to the client; an exception that leaves the loop body ends the
\* generator before the yield.
IterateChunk(k) ==
    /\ gen_pc = "iterating"
    /\ k \in 1 .. Len(stream_pending)
    /\ \E cb_raises, final_cb_raises \in BOOLEAN :
        LET chunk == SubSeq(stream_pending, 1, k)
            captured == Append(captured_chunks, chunk)
            p == process_chunk(chunk, extracted_content)
            updated == [response EXCEPT !.streaming_content = p.extracted,
                                        !.is_streaming = TRUE,
                                        !.streaming_complete = FALSE]
            notify == p.exc = "none" /\ p.had_content
            exc == IF notify THEN on_streaming_update_call(cb_raises) ELSE p.exc
            resp1 == IF notify THEN updated ELSE response
            notifs1 == IF notify THEN Append(notifications, updated)
                       ELSE notifications
            raised1 == IF notify THEN Append(notification_raised, cb_raises)
                       ELSE notification_raised
        IN /\ stream_pending' = SubSeq(stream_pending, k + 1, Len(stream_pending))
           /\ captured_chunks' = captured
           /\ extracted_content' = p.extracted
           /\ IF exc # "none"
              THEN LET f == finally_clause(captured, p.extracted, resp1, notifs1,
                                           raised1, final_cb_raises)
                   IN /\ response' = f.response
                      /\ notifications' = f.notifications
                      /\ notification_raised' = f.notification_raised
                      /\ gen_pc' = "closed"
                      /\ api_response_open' = FALSE
                      /\ UNCHANGED forwarded
              ELSE /\ response' = resp1
                   /\ notifications' = notifs1
                   /\ notification_raised' = raised1
                   /\ forwarded' = Append(forwarded, chunk)
                   /\ UNCHANGED <<gen_pc, api_response_open>>
    /\ UNCHANGED <<orchVars, lifeVars, histVars, on_intercept_calls>>

ReceiveChunk(k) ==
    /\ IterateChunk(k)
    /\ UNCHANGED restVars

\* The generator leaves the loop: the finally clause, then aclose().
GeneratorExits ==
    /\ \E final_cb_raises \in BOOLEAN :
        LET f == finally_clause(captured_chunks, extracted_content, response,
                                notifications, notification_raised,
                                final_cb_raises)
        IN /\ response' = f.response
           /\ notifications' = f.notifications
           /\ notification_raised' = f.notification_raised
    /\ gen_pc' = "closed"
    /\ api_response_open' = FALSE
    /\ UNCHANGED <<stream_pending, captured_chunks, extracted_content, forwarded,
                   on_intercept_calls>>
    /\ UNCHANGED <<orchVars, lifeVars, histVars>>

\* aiter_bytes is exhausted.
StreamEnds ==
    /\ gen_pc = "iterating"
    /\ stream_pending = <<>>
    /\ GeneratorExits
    /\ UNCHANGED restVars

\* aiter_bytes raises before the upstream has delivered everything.
StreamFails ==
    /\ gen_pc = "iterating"
    /\ stream_pending # <<>>
    /\ GeneratorExits
    /\ UNCHANGED restVars

\* ------------------------------------------------------------ GET /v1/models
IdleModelsRequest == [pc |-> "idle", calls |-> <<>>, status_code |-> 0, n |-> 0]

\* A faulty variant of models_key: the rotation of chat_completions.
models_key_rotating ==
    [idx |-> _current_key_index,
     next |-> (_current_key_index + 1) % Len(openrouter_api_keys)]

\* api_key = self.config.openrouter_api_keys[0]: the first key, and the key
\* cursor as it was.
models_key == [idx |-> 0, next |-> _current_key_index]

\* get_models up to its await of the upstream: 503 without a key; with a
\* client that is closed or None, self._client.get raises and
\* `except Exception` answers 500.
get_models ==
    /\ Listening
    /\ models_req.pc # "awaiting"
    /\ models_req.n < MaxModelsRequests
    /\ IF Len(openrouter_api_keys) = 0
       THEN /\ models_req' = [pc |-> "done", calls |-> <<>>, status_code |-> 503,
                              n |-> models_req.n + 1]
            /\ UNCHANGED _current_key_index
       ELSE LET k == models_key
            IN /\ _current_key_index' = k.next
               /\ models_req' =
                     IF _client = "open"
                     THEN [pc |-> "awaiting",
                           calls |-> <<[key |-> openrouter_api_keys[k.idx + 1]]>>,
                           status_code |-> 0, n |-> models_req.n + 1]
                     ELSE [pc |-> "done", calls |-> <<>>, status_code |-> 500,
                           n |-> models_req.n + 1]
    /\ UNCHANGED <<openrouter_api_keys, openrouter_api_models, log_requests,
                   _current_model_index, intercepted_requests, is_running, req,
                   key_order>>
    /\ UNCHANGED <<lifeVars, streamVars, histVars, errorVars, listVars, windowVars>>

\* The status get_models answers with: the upstream's JSON with 200, the
\* upstream's own status after raise_for_status(), 503 for a transport error,
\* 500 for a 200 whose body is no JSON.
models_status(o) ==
    CASE o.kind = "request_error" -> 503
      [] o.kind = "response" /\ o.status = 200 /\ o.body_is_json -> 200
      [] o.kind = "response" /\ o.status = 200 /\ ~o.body_is_json -> 500
      [] OTHER -> o.status

\* The upstream answers the call of get_models.
ModelsUpstreamResponds(o) ==
    /\ models_req.pc = "awaiting"
    /\ o \in UpstreamOutcomes(FALSE)
    /\ models_req' = [models_req EXCEPT !.pc = "done",
                                        !.status_code = models_status(o)]
    /\ UNCHANGED <<orchVars, lifeVars, streamVars, histVars, errorVars, listVars, windowVars>>

\* --------------------------------------------------------------- the window
\* ProxyConfig.port and AppConfig.port default to 8080.
DefaultPort == 8080

\* The ports the user saves.
Ports == {8080, 8081}

\* AsyncRunner as constructed; created is FALSE while self.async_runner is None. loop is
\* "none", "starting" (the thread is started) or "running"; start_co and
\* stop_co are where the coroutines _start_proxy and _stop_proxy are: "none",
\* "scheduled", "awaiting" (in start() or stop()), "emitted" (before the
\* finally clause); proxy_server counts the ProxyServer objects constructed.
NoRunner ==
    [created |-> FALSE, loop |-> "none", _start_requested |-> FALSE,
     _starting |-> FALSE, _stopping |-> FALSE, start_co |-> "none",
     stop_co |-> "none", proxy_server |-> 0]

WindowShown ==
    [toggle_text |-> "Start Proxy", toggle_enabled |-> TRUE,
     proxy_url_label |-> DefaultPort, config_port |-> DefaultPort,
     restart_timers |-> 0]

\* ------------------------------------------------------------ specification
\* Nothing but chat completions has been asked of the server.
RestIdle ==
    /\ models_req = IdleModelsRequest
    /\ last_error_detail = [r \in Requests |-> NoErrorDetail]
    /\ signals = <<>>
    /\ requests = <<>>
    /\ _pending = <<>>
    /\ request_list = <<>>
    /\ _flush_timer = FALSE
    /\ cleared = FALSE
    /\ async_runner = NoRunner
    /\ main_window = WindowShown
    /\ port = DefaultPort
    /\ server_port = DefaultPort

\* No generator runs.
StreamIdle ==
    /\ stream_pending = <<>>
    /\ captured_chunks = <<>>
    /\ extracted_content = <<>>
    /\ forwarded = <<>>
    /\ response = NoResponse
    /\ notifications = <<>>
    /\ notification_raised = <<>>
    /\ on_intercept_calls = <<>>
    /\ api_response_open = FALSE
    /\ gen_pc = "none"

\* start() has returned: the client exists and the uvicorn task serves.
ServerRunning ==
    /\ is_running = TRUE
    /\ _client = "open"
    /\ server = "live"
    /\ should_exit = FALSE
    /\ server_task = "serving"
    /\ foreign_listener = FALSE
    /\ start_pc = "idle"
    /\ attempt = 0
    /\ start_result = "returned"
    /\ stop_pc = "idle"
    /\ stops_in_a_row = 0

Init ==
    /\ openrouter_api_keys \in {KeyList(n) : n \in 0 .. MaxKeys}
    /\ openrouter_api_models \in {ModelList(n) : n \in 0 .. MaxModels}
    /\ log_requests \in BOOLEAN
    /\ _current_key_index = 0
    /\ _current_model_index = 0
    /\ intercepted_requests = <<>>
    /\ recorded_log = <<>>
    /\ ServerRunning
    /\ req = [r \in Requests |-> IdleRequest]
    /\ key_order = <<>>
    /\ StreamIdle
    /\ RestIdle

\* The requests made of a server with n models: one fewer of a server with
\* MaxModels models.
RequestsOf(n) == 1 .. (IF n < MaxModels THEN MaxRequests ELSE MaxRequests - 1)

Next ==
    \/ \E r \in RequestsOf(Len(openrouter_api_models)),
          body \in {"invalid_json", "not_object", "object"},
          stream \in BOOLEAN : chat_completions(r, body, stream)
    \/ \E r \in Requests, o \in ReadableOutcomes : UpstreamResponds(r, o)

Spec == Init /\ [][Next]_vars

\* One streaming exchange: request 1, a streaming request on a server with one
\* key and one model, awaits the upstream's answer to its call; the upstream
\* will then deliver stream_pending.
InitStream ==
    /\ openrouter_api_keys = KeyList(1)
    /\ openrouter_api_models = ModelList(1)
    /\ log_requests = TRUE
    /\ _current_key_index = 0
    /\ _current_model_index = 0
    /\ intercepted_requests = <<>>
    /\ recorded_log = <<>>
    /\ ServerRunning
    /\ req = [r \in Requests |->
                IF r = 1
                THEN BeginAttempt([IdleRequest EXCEPT
                                     !.body = "object", !.is_streaming = TRUE,
                                     !.key_index = 0,
                                     !.api_key = openrouter_api_keys[1],
                                     !.current_model_index = 0,
                                     !.num_models = 1], 0)
                ELSE IdleRequest]
    /\ key_order = <<1>>
    /\ stream_pending \in Streams(MaxFrames)
    /\ captured_chunks = <<>>
    /\ extracted_content = <<>>
    /\ forwarded = <<>>
    /\ response = NoResponse
    /\ notifications = <<>>
    /\ notification_raised = <<>>
    /\ on_intercept_calls = <<>>
    /\ api_response_open = TRUE
    /\ gen_pc = "opening"
    /\ RestIdle

NextStream ==
    \/ StreamOpens
    \/ \E k \in 1 .. 4 * MaxFrames : ReceiveChunk(k)
    \/ StreamEnds
    \/ StreamFails

SpecStream == InitStream /\ [][NextStream]_vars

\* The buffer under a stream of requests and clears, with its history: a
\* server with one key that records, and the log of what it recorded since
\* the last clear_requests().
Last(q) == q[Len(q)]

RecordingStep(r, o) ==
    /\ \E cb_raises \in BOOLEAN : HandleUpstreamResponse(r, o, cb_raises)
    /\ recorded_log' =
          IF intercepted_requests' # intercepted_requests
          THEN Append(recorded_log, Last(intercepted_requests'))
          ELSE recorded_log
    /\ UNCHANGED <<streamVars, restVars>>

clear_requests ==
    /\ intercepted_requests # <<>>
    /\ intercepted_requests' = <<>>
    /\ recorded_log' = <<>>
    /\ UNCHANGED <<openrouter_api_keys, openrouter_api_models, log_requests,
                   _current_key_index, _current_model_index, is_running, req,
                   key_order>>
    /\ UNCHANGED <<lifeVars, streamVars, restVars>>

InitBuffer ==
    /\ openrouter_api_keys = KeyList(1)
    /\ openrouter_api_models \in {ModelList(n) : n \in 1 .. MaxBufferModels}
    /\ log_requests = TRUE
    /\ _current_key_index = 0
    /\ _current_model_index = 0
    /\ intercepted_requests = <<>>
    /\ recorded_log = <<>>
    /\ ServerRunning
    /\ req = [r \in Requests |-> IdleRequest]
    /\ key_order = <<>>
    /\ StreamIdle
    /\ RestIdle

NextBuffer ==
    \/ \E r \in Requests, stream \in BOOLEAN : chat_completions(r, "object", stream)
    \/ \E r \in Requests, o \in AllOutcomes : RecordingStep(r, o)
    \/ clear_requests

SpecBuffer == InitBuffer /\ [][NextBuffer]_vars

\* ------------------------------------------------------- start() and stop()
\* What the lifecycle calls leave alone.
requestVars == <<log_requests, _current_key_index, _current_model_index,
                 intercepted_requests, req, key_order>>

configVars == <<openrouter_api_keys, openrouter_api_models>>

\* backoffs = [0.2, 0.5, 1.0], in tenths of a second.
backoffs == <<2, 5, 10>>

\* A faulty variant of the loop bound below: one cycle too many.
start_attempts_one_more == Len(backoffs) + 2

\* while attempt < len(backoffs) + 1
start_attempts == Len(backoffs) + 1

\* The end of a failed cycle, from `self.server = None` on: the backoff sleep
\* if attempts are left, else is_running = False and the RuntimeError.
EndFailedCycle ==
    /\ server' = "none"
    /\ server_task' = "none"
    /\ should_exit' = FALSE
    /\ IF attempt < start_attempts
       THEN /\ start_pc' = "backoff"
            /\ UNCHANGED <<is_running, start_result>>
       ELSE /\ start_pc' = "idle"
            /\ is_running' = FALSE
            /\ start_result' = "raised"
    /\ stops_in_a_row' = 0
    /\ UNCHANGED <<_client, foreign_listener, attempt, stop_pc>>

\* The top of the loop body: attempt += 1, a new uvicorn.Server and its task,
\* up to the first await of the readiness probe.
BeginCycle ==
    /\ attempt' = attempt + 1
    /\ server' = "live"
    /\ should_exit' = FALSE
    /\ server_task' = "starting"
    /\ start_pc' = "polling"

\* start() up to its first await: nothing if already running, else the client
\* is created unless there is one, and the first cycle begins.
start ==
    /\ start_pc = "idle"
    /\ stops_in_a_row' = 0
    /\ IF is_running
       THEN UNCHANGED <<_client, server, should_exit, server_task, start_pc,
                        attempt, start_result>>
       ELSE /\ _client' = IF _client = "none" THEN "open" ELSE _client
            /\ attempt' = 1
            /\ server' = "live"
            /\ should_exit' = FALSE
            /\ server_task' = "starting"
            /\ start_pc' = "polling"
            /\ start_result' = "none"
    /\ UNCHANGED <<is_running, foreign_listener, stop_pc>>

\* is_port_available(cfg_port): a test bind on the port succeeds.
is_port_available == ~foreign_listener /\ server_task # "serving"

\* AsyncRunner._start_proxy on an existing server: the port test, the key and
\* model lists replaced in place, then start().
_start_proxy(nk, nm) ==
    /\ is_port_available
    /\ openrouter_api_keys' = KeyList(nk)
    /\ openrouter_api_models' = ModelList(nm)
    /\ start
    /\ UNCHANGED <<requestVars, streamVars, histVars, restVars>>

\* ProxyServer.start() called as it is.
StartCall ==
    /\ start
    /\ UNCHANGED <<configVars, requestVars, streamVars, histVars, restVars>>

\* _ready() returns True: something answered GET / on host:port with 200 or
\* 404, this server's listener or another process's.
StartReady ==
    /\ start_pc = "polling"
    /\ server_task = "serving" \/ foreign_listener
    /\ is_running' = TRUE
    /\ start_pc' = "idle"
    /\ start_result' = "returned"
    /\ attempt' = 0
    /\ stops_in_a_row' = 0
    /\ UNCHANGED <<_client, server, should_exit, server_task, foreign_listener,
                   stop_pc>>
    /\ UNCHANGED <<configVars, requestVars, streamVars, histVars, restVars>>

\* The 3 s deadline passes with no probe answered: should_exit is set and the
\* task, unless done, is awaited for at most a second.
StartDeadline ==
    /\ start_pc = "polling"
    /\ IF server_task = "ended"
       THEN EndFailedCycle
       ELSE /\ should_exit' = TRUE
            /\ start_pc' = "teardown"
            /\ stops_in_a_row' = 0
            /\ UNCHANGED <<is_running, _client, server, server_task,
                           foreign_listener, attempt, start_result, stop_pc>>
    /\ UNCHANGED <<configVars, requestVars, streamVars, histVars, restVars>>

\* wait_for(self.server_task, 1.0) is over: the task has ended, or the timeout
\* has cancelled it.
StartTeardownDone ==
    /\ start_pc = "teardown"
    /\ EndFailedCycle
    /\ UNCHANGED <<configVars, requestVars, streamVars, histVars, restVars>>

\* The backoff sleep is over: the next cycle.
StartBackoffDone ==
    /\ start_pc = "backoff"
    /\ BeginCycle
    /\ stops_in_a_row' = 0
    /\ UNCHANGED <<is_running, _client, foreign_listener, start_result, stop_pc>>
    /\ UNCHANGED <<configVars, requestVars, streamVars, histVars, restVars>>

\* The end of stop(): is_running = False, self.server = None,
\* self.server_task = None.
EndStop ==
    /\ is_running' = FALSE
    /\ server' = "none"
    /\ server_task' = "none"
    /\ should_exit' = FALSE
    /\ stop_pc' = "idle"
    /\ stops_in_a_row' = IF stops_in_a_row < 2 THEN stops_in_a_row + 1 ELSE 2

\* stop() from `self._client = None` on: should_exit is set, and the task,
\* unless done, is awaited.
SignalAndAwait ==
    /\ _client' = "none"
    /\ IF server_task \in {"starting", "serving"}
       THEN /\ should_exit' = TRUE
            /\ stop_pc' = "awaiting_task"
            /\ UNCHANGED <<is_running, server, server_task, stops_in_a_row>>
       ELSE EndStop

\* stop() up to its first await: nothing unless running with a server, else
\* the client, if there is one, starts to close.
stop ==
    /\ stop_pc = "idle"
    /\ IF ~is_running \/ server = "none"
       THEN /\ stops_in_a_row' =
                  IF stops_in_a_row < 2 THEN stops_in_a_row + 1 ELSE 2
            /\ UNCHANGED <<is_running, _client, server, should_exit,
                           server_task, stop_pc>>
       ELSE IF _client # "none"
       THEN /\ _client' = "closed"
            /\ stop_pc' = "closing_client"
            /\ UNCHANGED <<is_running, server, should_exit, server_task,
                           stops_in_a_row>>
       ELSE SignalAndAwait
    /\ UNCHANGED <<foreign_listener, start_pc, attempt, start_result>>

\* ProxyServer.stop() called as it is.
StopCall ==
    /\ stop
    /\ UNCHANGED <<configVars, requestVars, streamVars, histVars, restVars>>

\* self._client.aclose() has returned.
StopClientClosed ==
    /\ stop_pc = "closing_client"
    /\ SignalAndAwait
    /\ UNCHANGED <<foreign_listener, start_pc, attempt, start_result>>
    /\ UNCHANGED <<configVars, requestVars, streamVars, histVars, restVars>>

\* `await self.server_task` has returned.
StopTaskAwaited ==
    /\ stop_pc = "awaiting_task"
    /\ server_task = "ended"
    /\ EndStop
    /\ UNCHANGED <<_client, foreign_listener, start_pc, attempt, start_result>>
    /\ UNCHANGED <<configVars, requestVars, streamVars, histVars, restVars>>

\* ---- the uvicorn task and the port
\* What the task and the other processes leave alone.
TaskStep ==
    /\ UNCHANGED <<is_running, _client, server, should_exit, start_pc, attempt,
                   start_result, stop_pc, stops_in_a_row>>
    /\ UNCHANGED <<configVars, requestVars, streamVars, histVars, restVars>>

\* server.serve() binds host:port and serves.
ServeBinds ==
    /\ server_task = "starting"
    /\ ~foreign_listener
    /\ ~should_exit
    /\ server_task' = "serving"
    /\ UNCHANGED foreign_listener
    /\ TaskStep

\* server.serve() cannot bind: the address is in use, the task ends.
ServeBindFails ==
    /\ server_task = "starting"
    /\ foreign_listener
    /\ server_task' = "ended"
    /\ UNCHANGED foreign_listener
    /\ TaskStep

\* server.serve() sees should_exit and returns, once the requests in flight
\* have been answered.
ServeExits ==
    /\ server_task \in {"starting", "serving"}
    /\ should_exit
    /\ InFlight = {}
    /\ server_task' = "ended"
    /\ UNCHANGED foreign_listener
    /\ TaskStep

\* Another process binds the port and answers HTTP on it, or leaves it.
ForeignBinds ==
    /\ ~foreign_listener
    /\ server_task # "serving"
    /\ foreign_listener' = TRUE
    /\ UNCHANGED server_task
    /\ TaskStep

ForeignCloses ==
    /\ foreign_listener
    /\ foreign_listener' = FALSE
    /\ UNCHANGED server_task
    /\ TaskStep

\* ---- the lifecycle with requests in flight
\* A server just constructed with a valid configuration.
ServerConstructed ==
    /\ is_running = FALSE
    /\ _client = "none"
    /\ server = "none"
    /\ should_exit = FALSE
    /\ server_task = "none"
    /\ foreign_listener = FALSE
    /\ start_pc = "idle"
    /\ attempt = 0
    /\ start_result = "none"
    /\ stop_pc = "idle"
    /\ stops_in_a_row = 0

\* The upstream of the lifecycle runs answers 200 with a JSON body, or 429.
LifecycleOutcomes ==
    {o \in ReadableOutcomes :
        \/ o.status = 200 /\ o.body_is_json
        \/ o.status = 429}

InitLifecycle ==
    /\ openrouter_api_keys \in {KeyList(n) : n \in 1 .. MaxKeys}
    /\ openrouter_api_models \in {ModelList(n) : n \in 1 .. MaxLifecycleModels}
    /\ log_requests = TRUE
    /\ _current_key_index = 0
    /\ _current_model_index = 0
    /\ intercepted_requests = <<>>
    /\ recorded_log = <<>>
    /\ ServerConstructed
    /\ req = [r \in Requests |-> IdleRequest]
    /\ key_order = <<>>
    /\ StreamIdle
    /\ RestIdle

NextLifecycle ==
    \/ StartCall
    \/ \E nk \in 1 .. MaxKeys, nm \in 1 .. MaxLifecycleModels : _start_proxy(nk, nm)
    \/ StartReady
    \/ StartDeadline
    \/ StartTeardownDone
    \/ StartBackoffDone
    \/ StopCall
    \/ StopClientClosed
    \/ StopTaskAwaited
    \/ ServeBinds
    \/ ServeBindFails
    \/ ServeExits
    \/ ForeignBinds
    \/ ForeignCloses
    \/ \E r \in 1 .. MaxLifecycleRequests : chat_completions(r, "object", FALSE)
    \/ \E r \in 1 .. MaxLifecycleRequests, o \in LifecycleOutcomes :
          UpstreamResponds(r, o)

SpecLifecycle == InitLifecycle /\ [][NextLifecycle]_vars

\* ------------------------------------------------ keys of any value at work
\* A running server whose configured keys are any strings, sendable as a
\* header value or not.
InitErrors ==
    /\ openrouter_api_keys \in
          {KeyListOf(tags) : tags \in UNION {KeyLists(n) : n \in 1 .. MaxKeys}}
    /\ openrouter_api_models \in {ModelList(n) : n \in 1 .. MaxLifecycleModels}
    /\ log_requests = TRUE
    /\ _current_key_index = 0
    /\ _current_model_index = 0
    /\ intercepted_requests = <<>>
    /\ recorded_log = <<>>
    /\ ServerRunning
    /\ req = [r \in Requests |-> IdleRequest]
    /\ key_order = <<>>
    /\ StreamIdle
    /\ RestIdle

\* The step of a request whose error text is kept. A request h11 refuses to
\* send reaches no upstream.
RespondsWithText(r, o) ==
    /\ req[r].pc = "awaiting"
    /\ header_value_legal(req[r].api_key) \/ o.kind = "request_error"
    /\ HandleUpstreamResponse(r, o, FALSE)
    /\ LET rq == req[r]
           call == rq.calls[Len(rq.calls)]
           t == TryBody(o, rq.is_streaming, rq.i = rq.num_models - 1,
                        rq.last_error_status, FALSE)
       IN \E e \in ExceptionTexts(call, o, t) :
             last_error_detail' =
                 [last_error_detail EXCEPT ![r] =
                     IF t.returned THEN @
                     ELSE error_detail(rq.key_index, call, o, t, e)]
    /\ UNCHANGED <<streamVars, histVars, modelsVars, listVars, windowVars>>

NextErrors ==
    \/ \E r \in 1 .. MaxLifecycleRequests, stream \in BOOLEAN :
          chat_completions(r, "object", stream)
    \/ \E r \in 1 .. MaxLifecycleRequests, o \in AllOutcomes :
          RespondsWithText(r, o)

SpecErrors == InitErrors /\ [][NextErrors]_vars

\* ------------------------------------------------- the window's request list
\* The exchange that the attempt request r is at appends when it is answered
\* 200: the object handed to on_intercept and to on_streaming_update.
Intercepted(r) ==
    [request |-> r,
     model_index |-> (req[r].current_model_index + req[r].i) % req[r].num_models,
     status_code |-> 200,
     is_streaming |-> req[r].is_streaming]

\* AsyncRunner._on_intercept and _on_streaming_update: the bridge signal is
\* emitted on the asyncio thread and queued for the window's thread.
emit(queue, sig, x) == Append(queue, [sig |-> sig, intercepted |-> x])

RECURSIVE emit_times(_, _, _, _)
emit_times(queue, sig, x, n) ==
    IF n = 0 THEN queue ELSE emit_times(emit(queue, sig, x), sig, x, n - 1)

\* The suffix update_streaming_request writes for the response as it is now.
streaming_suffix(resp) ==
    IF resp.is_streaming /\ ~resp.streaming_complete THEN "streaming"
    ELSE IF resp.streaming_complete THEN "latency"
    ELSE "none"

\* _create_list_item: the item of an exchange, with its latency when it has one.
_create_list_item(x) ==
    [intercepted |-> x,
     suffix |-> IF x.is_streaming /\ response.latency_ms = "none"
                THEN "none" ELSE "latency"]

\* A faulty variant of flushed that leaves the batch where it was.
flushed_keeping_pending ==
    [request_list |->
        request_list \o [j \in 1 .. Len(_pending) |-> _create_list_item(_pending[j])],
     _pending |-> _pending]

\* pending = self._pending; self._pending = []; one addItem per pending request.
flushed ==
    [request_list |->
        request_list \o [j \in 1 .. Len(_pending) |-> _create_list_item(_pending[j])],
     _pending |-> <<>>]

\* RequestListWidget.add_request: the timer is stopped if active and started.
add_request(x) ==
    /\ requests' = Append(requests, x)
    /\ _pending' = Append(_pending, x)
    /\ _flush_timer' = TRUE
    /\ UNCHANGED request_list

\* RequestListWidget.update_streaming_request: the first entry of
\* self.requests with the timestamp of x is replaced, and the item at the same
\* row, if the list has one, is rewritten for x.
update_streaming_request(x) ==
    LET rows == {i \in 1 .. Len(requests) : requests[i] = x}
    IN /\ IF rows = {}
          THEN UNCHANGED <<requests, request_list>>
          ELSE LET i == CHOOSE i \in rows : \A j \in rows : i <= j
               IN /\ requests' = [requests EXCEPT ![i] = x]
                  /\ request_list' =
                        IF i <= Len(request_list)
                        THEN [request_list EXCEPT ![i] =
                                 [intercepted |-> x,
                                  suffix |-> streaming_suffix(response)]]
                        ELSE request_list
       /\ UNCHANGED <<_pending, _flush_timer>>

\* The window's thread runs the slot of the oldest queued signal:
\* MainWindow._on_request_intercepted or MainWindow._on_streaming_update.
DeliverSignal ==
    /\ signals # <<>>
    /\ signals' = Tail(signals)
    /\ IF Head(signals).sig = "request_intercepted"
       THEN add_request(Head(signals).intercepted)
       ELSE update_streaming_request(Head(signals).intercepted)
    /\ UNCHANGED cleared
    /\ UNCHANGED <<orchVars, lifeVars, streamVars, histVars, modelsVars, errorVars, windowVars>>

\* The timer fires: RequestListWidget._flush_pending.
_flush_pending ==
    /\ _flush_timer
    /\ _flush_timer' = FALSE
    /\ request_list' = flushed.request_list
    /\ _pending' = flushed._pending
    /\ UNCHANGED <<signals, requests, cleared>>
    /\ UNCHANGED <<orchVars, lifeVars, streamVars, histVars, modelsVars, errorVars, windowVars>>

\* MainWindow._clear_requests: ProxyServer.clear_requests, then
\* set_requests([]), which assigns self.requests and rebuilds the items.
_clear_requests ==
    /\ intercepted_requests' = <<>>
    /\ recorded_log' = <<>>
    /\ requests' = <<>>
    /\ request_list' = <<>>
    /\ cleared' = TRUE
    /\ UNCHANGED <<signals, _pending, _flush_timer>>
    /\ UNCHANGED <<openrouter_api_keys, openrouter_api_models, log_requests,
                   _current_key_index, _current_model_index, is_running, req,
                   key_order>>
    /\ UNCHANGED <<lifeVars, streamVars, modelsVars, errorVars, windowVars>>

\* The steps of the server under a window: each call of on_intercept and of
\* on_streaming_update emits its signal.
ListResponds(r, o) ==
    /\ r # 1
    /\ req[r].pc = "awaiting"
    /\ HandleUpstreamResponse(r, o, FALSE)
    /\ LET t == TryBody(o, req[r].is_streaming, req[r].i = req[r].num_models - 1,
                        req[r].last_error_status, FALSE)
       IN /\ signals' = IF t.recorded
                        THEN emit(signals, "request_intercepted", Intercepted(r))
                        ELSE signals
          /\ cleared' = (cleared /\ ~t.recorded)
    /\ UNCHANGED <<requests, _pending, request_list, _flush_timer>>
    /\ UNCHANGED <<streamVars, histVars, modelsVars, errorVars, windowVars>>

ListStreamOpens ==
    /\ ReturnStreamingResponse
    /\ signals' = IF Len(on_intercept_calls') > Len(on_intercept_calls)
                  THEN emit(signals, "request_intercepted", Intercepted(1))
                  ELSE signals
    /\ cleared' = (cleared /\ Len(on_intercept_calls') = Len(on_intercept_calls))
    /\ UNCHANGED <<requests, _pending, request_list, _flush_timer>>
    /\ UNCHANGED <<modelsVars, errorVars, windowVars>>

ListReceiveChunk(k) ==
    /\ IterateChunk(k)
    /\ signals' = emit_times(signals, "streaming_update", Intercepted(1),
                             Len(notifications') - Len(notifications))
    /\ UNCHANGED <<requests, _pending, request_list, _flush_timer, cleared>>
    /\ UNCHANGED <<modelsVars, errorVars, windowVars>>

ListStreamEnds ==
    /\ gen_pc = "iterating"
    /\ stream_pending = <<>>
    /\ GeneratorExits
    /\ signals' = emit_times(signals, "streaming_update", Intercepted(1),
                             Len(notifications') - Len(notifications))
    /\ UNCHANGED <<requests, _pending, request_list, _flush_timer, cleared>>
    /\ UNCHANGED <<modelsVars, errorVars, windowVars>>

ListStreamFails ==
    /\ gen_pc = "iterating"
    /\ stream_pending # <<>>
    /\ GeneratorExits
    /\ signals' = emit_times(signals, "streaming_update", Intercepted(1),
                             Len(notifications') - Len(notifications))
    /\ UNCHANGED <<requests, _pending, request_list, _flush_timer, cleared>>
    /\ UNCHANGED <<modelsVars, errorVars, windowVars>>

\* What the upstream streams to request 1 under the window.
ListStream == <<"data: ", "{He", "}", "\n">>

\* A window on a running server with one key and one model: request 1, a
\* streaming request, awaits the upstream's answer; the others are to come.
InitList ==
    /\ openrouter_api_keys = KeyList(1)
    /\ openrouter_api_models = ModelList(1)
    /\ log_requests = TRUE
    /\ _current_key_index = 0
    /\ _current_model_index = 0
    /\ intercepted_requests = <<>>
    /\ recorded_log = <<>>
    /\ ServerRunning
    /\ req = [r \in Requests |->
                IF r = 1
                THEN BeginAttempt([IdleRequest EXCEPT
                                     !.body = "object", !.is_streaming = TRUE,
                                     !.key_index = 0,
                                     !.api_key = openrouter_api_keys[1],
                                     !.current_model_index = 0,
                                     !.num_models = 1], 0)
                ELSE IdleRequest]
    /\ key_order = <<1>>
    /\ stream_pending = ListStream
    /\ captured_chunks = <<>>
    /\ extracted_content = <<>>
    /\ forwarded = <<>>
    /\ response = NoResponse
    /\ notifications = <<>>
    /\ notification_raised = <<>>
    /\ on_intercept_calls = <<>>
    /\ api_response_open = TRUE
    /\ gen_pc = "opening"
    /\ RestIdle

NextList ==
    \/ \E r \in 2 .. MaxListRequests : chat_completions(r, "object", FALSE)
    \/ \E r \in 2 .. MaxListRequests, o \in ReadableOutcomes : ListResponds(r, o)
    \/ ListStreamOpens
    \/ \E k \in 1 .. Len(ListStream) : ListReceiveChunk(k)
    \/ ListStreamEnds
    \/ ListStreamFails
    \/ DeliverSignal
    \/ _flush_pending

\* The window's event loop runs every queued slot and every due timer.
SpecList ==
    /\ InitList
    /\ [][NextList]_vars
    /\ WF_vars(DeliverSignal)
    /\ WF_vars(_flush_pending)

NextClear ==
    \/ NextList
    \/ _clear_requests

SpecClear == InitList /\ [][NextClear]_vars

\* --------------------------------------------- the toggle button and the port
\* AsyncRunner.start_proxy, called on the window's thread: ignored while
\* _starting, queued if the loop does not run yet, else the coroutine
\* _start_proxy is handed to the loop.
start_proxy(ar) ==
    IF ar._starting THEN ar
    ELSE IF ar.loop # "running" THEN [ar EXCEPT !._start_requested = TRUE]
    ELSE [ar EXCEPT !._starting = TRUE, !.start_co = "scheduled"]

\* AsyncRunner.stop_proxy.
stop_proxy(ar) ==
    IF ar._stopping \/ ar.loop # "running" THEN ar
    ELSE [ar EXCEPT !._stopping = TRUE, !.stop_co = "scheduled"]

\* is_port_available(p): a test bind on p succeeds. The other process of
\* foreign_listener sits on the port the server is configured with.
port_available(p) ==
    /\ ~(server_task = "serving" /\ server_port = p)
    /\ ~(foreign_listener /\ p = port)

\* A faulty variant of applied_port that leaves the server's port as it was.
applied_port_stale(cfg_port) == port

\* self.proxy_server.config.port = cfg_port (and port=cfg_port for a new one).
applied_port(cfg_port) == cfg_port

\* MainWindow._toggle_proxy with runner ar and window mw: the runner and the
\* window it leaves. Without a runner it creates one, queues the start and
\* starts the thread.
toggle_proxy(ar, mw) ==
    IF ~ar.created
    THEN [ar |-> [ar EXCEPT !.created = TRUE, !._start_requested = TRUE,
                            !.loop = "starting"],
          mw |-> [mw EXCEPT !.toggle_enabled = FALSE,
                            !.toggle_text = "Starting..."]]
    ELSE IF mw.toggle_text = "Start Proxy"
    THEN [ar |-> start_proxy(ar),
          mw |-> [mw EXCEPT !.toggle_enabled = FALSE,
                            !.toggle_text = "Starting..."]]
    ELSE [ar |-> stop_proxy(ar),
          mw |-> [mw EXCEPT !.toggle_enabled = FALSE,
                            !.toggle_text = "Stopping..."]]

\* The toggle button is clicked.
_toggle_proxy ==
    /\ main_window.toggle_enabled
    /\ async_runner' = toggle_proxy(async_runner, main_window).ar
    /\ main_window' = toggle_proxy(async_runner, main_window).mw
    /\ UNCHANGED <<port, server_port>>
    /\ UNCHANGED <<orchVars, lifeVars, streamVars, histVars, modelsVars,
                   errorVars, listVars>>

\* AsyncRunner.run: the loop runs and its first callback emits loop_ready.
LoopStarts ==
    /\ async_runner.loop = "starting"
    /\ async_runner' = [async_runner EXCEPT !.loop = "running"]
    /\ signals' = emit(signals, "loop_ready", <<>>)
    /\ UNCHANGED <<requests, _pending, request_list, _flush_timer, cleared>>
    /\ UNCHANGED <<main_window, port, server_port>>
    /\ UNCHANGED <<orchVars, lifeVars, streamVars, histVars, modelsVars, errorVars>>

\* The window's thread runs the slot of the oldest queued signal of the
\* runner: _on_loop_ready, _on_proxy_started, _on_proxy_stopped or
\* _on_proxy_error.
DeliverNotification ==
    /\ signals # <<>>
    /\ signals' = Tail(signals)
    /\ LET sig == Head(signals).sig
           transitional == main_window.toggle_text \in {"Starting...", "Stopping..."}
       IN CASE sig = "loop_ready" ->
                 LET ar == IF async_runner._start_requested
                           THEN start_proxy([async_runner EXCEPT
                                               !._start_requested = FALSE])
                           ELSE async_runner
                 IN /\ async_runner' = ar
                    /\ main_window' =
                          IF ar._starting THEN main_window
                          ELSE [main_window EXCEPT
                                  !.toggle_enabled = TRUE,
                                  !.toggle_text =
                                      IF @ = "Starting..." THEN "Start Proxy" ELSE @]
            [] sig = "proxy_started" ->
                 /\ main_window' = [main_window EXCEPT
                                      !.toggle_text = "Stop Proxy",
                                      !.toggle_enabled = TRUE,
                                      !.proxy_url_label = main_window.config_port]
                 /\ UNCHANGED async_runner
            [] sig = "proxy_stopped" ->
                 /\ main_window' = [main_window EXCEPT
                                      !.toggle_text = "Start Proxy",
                                      !.toggle_enabled = TRUE]
                 /\ UNCHANGED async_runner
            [] OTHER ->
                 /\ main_window' = [main_window EXCEPT
                                      !.toggle_enabled = TRUE,
                                      !.toggle_text =
                                          IF transitional THEN "Start Proxy" ELSE @]
                 /\ UNCHANGED async_runner
    /\ UNCHANGED <<requests, _pending, request_list, _flush_timer, cleared>>
    /\ UNCHANGED <<port, server_port>>
    /\ UNCHANGED <<orchVars, lifeVars, streamVars, histVars, modelsVars, errorVars>>

\* The port field is edited and saved: ConfigWidget._save_config refuses a new
\* port that is taken; MainWindow._on_config_saved rewrites the label and, if
\* the server runs on another port, stops the proxy and starts it 800 ms
\* later.
_save_config(p) ==
    /\ p \in Ports
    /\ p = main_window.config_port \/ port_available(p)
    /\ LET restart == /\ async_runner.proxy_server > 0
                      /\ is_running
                      /\ p # port
       IN /\ restart => main_window.restart_timers < MaxRestartTimers
          /\ main_window' = [main_window EXCEPT
                               !.config_port = p,
                               !.proxy_url_label = p,
                               !.restart_timers = IF restart THEN @ + 1 ELSE @]
          /\ async_runner' = IF restart THEN stop_proxy(async_runner)
                             ELSE async_runner
    /\ UNCHANGED <<port, server_port>>
    /\ UNCHANGED <<orchVars, lifeVars, streamVars, histVars, modelsVars,
                   errorVars, listVars>>

\* QTimer.singleShot(800, self.async_runner.start_proxy) is due.
RestartTimerFires ==
    /\ main_window.restart_timers > 0
    /\ main_window' = [main_window EXCEPT !.restart_timers = @ - 1]
    /\ async_runner' = start_proxy(async_runner)
    /\ UNCHANGED <<port, server_port>>
    /\ UNCHANGED <<orchVars, lifeVars, streamVars, histVars, modelsVars,
                   errorVars, listVars>>

\* A coroutine of the runner is at a point from which it goes on without an
\* await: start() or stop() has returned to it, or it has emitted its signal
\* and its finally clause is next. No other callback of the loop runs then.
\* The queue of the window's thread has room for one more signal.
CanEmit == Len(signals) < MaxSignals

ContinuationPending ==
    \/ async_runner.start_co = "awaiting" /\ start_pc = "idle"
    \/ async_runner.start_co = "emitted"
    \/ async_runner.stop_co = "awaiting" /\ stop_pc = "idle"
    \/ async_runner.stop_co = "emitted"

\* AsyncRunner._start_proxy up to the first await of start(): the port test,
\* the server constructed if there is none, else its config rewritten in
\* place, then start(). A taken port raises into `except`, which emits
\* proxy_error.
StartCoroutineBegins ==
    /\ async_runner.start_co = "scheduled"
    /\ ~ContinuationPending
    /\ CanEmit
    /\ IF ~port_available(main_window.config_port)
       THEN /\ signals' = emit(signals, "proxy_error", <<>>)
            /\ async_runner' = [async_runner EXCEPT !.start_co = "emitted"]
            /\ UNCHANGED <<port, server_port, is_running>>
            /\ UNCHANGED lifeVars
       ELSE /\ async_runner' = [async_runner EXCEPT
                                   !.proxy_server = IF @ = 0 THEN 1 ELSE @,
                                   !.start_co = "awaiting"]
            /\ port' = applied_port(main_window.config_port)
            \* uvicorn.Config(port=self.config.port) in every cycle of start()
            /\ server_port' = IF is_running THEN server_port ELSE port'
            /\ start
            /\ UNCHANGED signals
    /\ UNCHANGED <<requests, _pending, request_list, _flush_timer, cleared>>
    /\ UNCHANGED main_window
    /\ UNCHANGED <<configVars, requestVars, streamVars, histVars, modelsVars,
                   errorVars>>

\* start() has returned or raised: proxy_started or proxy_error is emitted.
StartCoroutineEmits ==
    /\ async_runner.start_co = "awaiting"
    /\ start_pc = "idle"
    /\ CanEmit
    /\ signals' = emit(signals,
                       IF start_result = "raised" THEN "proxy_error"
                       ELSE "proxy_started", <<>>)
    /\ async_runner' = [async_runner EXCEPT !.start_co = "emitted"]
    /\ UNCHANGED <<requests, _pending, request_list, _flush_timer, cleared>>
    /\ UNCHANGED <<main_window, port, server_port>>
    /\ UNCHANGED <<orchVars, lifeVars, streamVars, histVars, modelsVars, errorVars>>

\* finally: self._starting = False.
StartCoroutineFinally ==
    /\ async_runner.start_co = "emitted"
    /\ async_runner' = [async_runner EXCEPT !.start_co = "none",
                                            !._starting = FALSE]
    /\ UNCHANGED <<main_window, port, server_port>>
    /\ UNCHANGED <<orchVars, lifeVars, streamVars, histVars, modelsVars,
                   errorVars, listVars>>

\* AsyncRunner._stop_proxy up to the first await of stop(); without a server
\* it emits nothing.
StopCoroutineBegins ==
    /\ async_runner.stop_co = "scheduled"
    /\ ~ContinuationPending
    /\ IF async_runner.proxy_server = 0
       THEN /\ async_runner' = [async_runner EXCEPT !.stop_co = "emitted"]
            /\ UNCHANGED is_running
            /\ UNCHANGED lifeVars
       ELSE /\ async_runner' = [async_runner EXCEPT !.stop_co = "awaiting"]
            /\ stop
    /\ UNCHANGED <<main_window, port, server_port>>
    /\ UNCHANGED <<configVars, requestVars, streamVars, histVars, modelsVars,
                   errorVars, listVars>>

\* stop() has returned: proxy_stopped is emitted.
StopCoroutineEmits ==
    /\ async_runner.stop_co = "awaiting"
    /\ stop_pc = "idle"
    /\ CanEmit
    /\ signals' = emit(signals, "proxy_stopped", <<>>)
    /\ async_runner' = [async_runner EXCEPT !.stop_co = "emitted"]
    /\ UNCHANGED <<requests, _pending, request_list, _flush_timer, cleared>>
    /\ UNCHANGED <<main_window, port, server_port>>
    /\ UNCHANGED <<orchVars, lifeVars, streamVars, histVars, modelsVars, errorVars>>

\* finally: self._stopping = False.
StopCoroutineFinally ==
    /\ async_runner.stop_co = "emitted"
    /\ async_runner' = [async_runner EXCEPT !.stop_co = "none",
                                            !._stopping = FALSE]
    /\ UNCHANGED <<main_window, port, server_port>>
    /\ UNCHANGED <<orchVars, lifeVars, streamVars, histVars, modelsVars,
                   errorVars, listVars>>

\* The window just constructed: __init__ ends with _auto_start_proxy, which
\* calls _toggle_proxy, so the runner exists, its thread is started and the
\* button shows "Starting...". A valid configuration with one key and one model.
InitWindow ==
    /\ openrouter_api_keys = KeyList(1)
    /\ openrouter_api_models = ModelList(1)
    /\ log_requests = TRUE
    /\ _current_key_index = 0
    /\ _current_model_index = 0
    /\ intercepted_requests = <<>>
    /\ recorded_log = <<>>
    /\ ServerConstructed
    /\ req = [r \in Requests |-> IdleRequest]
    /\ key_order = <<>>
    /\ StreamIdle
    /\ models_req = IdleModelsRequest
    /\ last_error_detail = [r \in Requests |-> NoErrorDetail]
    /\ signals = <<>>
    /\ requests = <<>>
    /\ _pending = <<>>
    /\ request_list = <<>>
    /\ _flush_timer = FALSE
    /\ cleared = FALSE
    /\ async_runner = toggle_proxy(NoRunner, WindowShown).ar
    /\ main_window = toggle_proxy(NoRunner, WindowShown).mw
    /\ port = DefaultPort
    /\ server_port = DefaultPort

NextWindow ==
    \/ _toggle_proxy
    \/ LoopStarts
    \/ DeliverNotification
    \/ \E p \in Ports : _save_config(p)
    \/ RestartTimerFires
    \/ StartCoroutineBegins
    \/ StartCoroutineEmits
    \/ StartCoroutineFinally
    \/ StopCoroutineBegins
    \/ StopCoroutineEmits
    \/ StopCoroutineFinally
    \/ ~ContinuationPending /\ StartReady
    \/ ~ContinuationPending /\ StartDeadline
    \/ ~ContinuationPending /\ StartTeardownDone
    \/ ~ContinuationPending /\ StartBackoffDone
    \/ ~ContinuationPending /\ StopClientClosed
    \/ ~ContinuationPending /\ StopTaskAwaited
    \/ ~ContinuationPending /\ ServeBinds
    \/ ~ContinuationPending /\ ServeBindFails
    \/ ~ContinuationPending /\ ServeExits
    \/ ForeignBinds
    \/ ForeignCloses

SpecWindow == InitWindow /\ [][NextWindow]_vars

\* A restart in an environment that does not interfere: no other process
\* touches the ports, the listener binds and answers the probe before the
\* deadline, and the user clicks and saves only when nothing is under way.
Settled ==
    /\ async_runner.loop = "running"
    /\ async_runner.start_co = "none"
    /\ async_runner.stop_co = "none"
    /\ signals = <<>>
    /\ main_window.restart_timers = 0
    /\ start_pc = "idle"
    /\ stop_pc = "idle"

UserToggles == Settled /\ _toggle_proxy

UserSaves == Settled /\ \E p \in Ports : _save_config(p)

LifecycleStep ==
    /\ ~ContinuationPending
    /\ \/ StartReady
       \/ StopClientClosed
       \/ StopTaskAwaited
       \/ ServeBinds
       \/ ServeExits

NextRestart ==
    \/ UserToggles
    \/ UserSaves
    \/ LoopStarts
    \/ DeliverNotification
    \/ RestartTimerFires
    \/ StartCoroutineBegins
    \/ StartCoroutineEmits
    \/ StartCoroutineFinally
    \/ StopCoroutineBegins
    \/ StopCoroutineEmits
    \/ StopCoroutineFinally
    \/ LifecycleStep

\* The Qt event loop runs every queued slot and every due timer, the asyncio
\* loop runs every scheduled coroutine to its end, and uvicorn binds and
\* shuts down.
SpecRestart ==
    /\ InitWindow
    /\ [][NextRestart]_vars
    /\ WF_vars(LoopStarts)
    /\ WF_vars(DeliverNotification)
    /\ WF_vars(RestartTimerFires)
    /\ WF_vars(StartCoroutineBegins)
    /\ WF_vars(StartCoroutineEmits)
    /\ WF_vars(StartCoroutineFinally)
    /\ WF_vars(StopCoroutineBegins)
    /\ WF_vars(StopCoroutineEmits)
    /\ WF_vars(StopCoroutineFinally)
    /\ WF_vars(LifecycleStep)

\* ------------------------------------------------- GET /v1/models at work
\* A running server that is asked for the model list while it handles chat
\* completions.
InitModels ==
    /\ openrouter_api_keys \in {KeyList(n) : n \in 0 .. MaxKeys}
    /\ openrouter_api_models \in {ModelList(n) : n \in 1 .. MaxLifecycleModels}
    /\ log_requests = TRUE
    /\ _current_key_index = 0
    /\ _current_model_index = 0
    /\ intercepted_requests = <<>>
    /\ recorded_log = <<>>
    /\ ServerRunning
    /\ req = [r \in Requests |-> IdleRequest]
    /\ key_order = <<>>
    /\ StreamIdle
    /\ RestIdle

NextModels ==
    \/ \E r \in 1 .. MaxLifecycleRequests : chat_completions(r, "object", FALSE)
    \/ \E r \in 1 .. MaxLifecycleRequests, o \in LifecycleOutcomes :
          UpstreamResponds(r, o)
    \/ get_models
    \/ \E o \in ReadableOutcomes : ModelsUpstreamResponds(o)

SpecModels == InitModels /\ [][NextModels]_vars

\* ------------------------------------------------------------------ helpers
NumKeys == Len(openrouter_api_keys)

NumModels == Len(openrouter_api_models)

Done(r) == req[r].pc = "done"

\* Every configured model was called and none of the calls was answered 200.
AllModelsFailed(r) ==
    /\ Done(r)
    /\ NumModels > 0
    /\ Len(req[r].calls) = NumModels
    /\ req[r].first_200 = 0

\* How many times request r read the key cursor.
KeyReads(r) == Cardinality({j \in 1 .. Len(key_order) : key_order[j] = r})

\* The status of the last upstream attempt, as the caller should see it.
StatusOfLastAttempt(r) ==
    IF req[r].last_outcome.kind = "request_error"
    THEN 503
    ELSE req[r].last_outcome.status

\* ------------------------------------------------------------------- claims

\* C1. Fallback short-circuit: the first call of a request that the upstream
\* answers with 200 is the last call of that request, and the request ends with
\* a 200 that carries the payload of that call's model.
C1_FallbackShortCircuit ==
    \A r \in Requests :
        req[r].first_200 > 0 =>
            /\ Len(req[r].calls) = req[r].first_200
            /\ Done(r)
            /\ req[r].status_code = 200
            /\ req[r].payload = req[r].calls[req[r].first_200].model_index

\* C2. Exhaustion advances the model cursor: when the only request handled so
\* far has failed on every configured model, whatever the kind of each failure,
\* the model cursor is (start of that request + 1) mod N.
C2_ExhaustionAdvancesCursor ==
    \A r \in Requests :
        (AllModelsFailed(r) /\ \A q \in Requests \ {r} : req[q].pc = "idle") =>
            _current_model_index = (req[r].current_model_index + 1) % NumModels

\* C3. Sticky model: the model cursor changes only in the step in which a
\* request ends by running out of models; no step of a request that ends in
\* success changes it, and a request that begins reads the cursor as it is, so
\* the request after a successful one starts where that one started.
C3_StickyModel ==
    [][/\ (_current_model_index' # _current_model_index =>
              \E r \in Requests :
                  /\ req[r].pc = "awaiting"
                  /\ req'[r].exit = "raised_exhausted")
       /\ \A r \in Requests :
              (req[r].pc = "awaiting" /\ req'[r].exit = "returned") =>
                  _current_model_index' = _current_model_index
       /\ \A r \in Requests :
              (req[r].pc = "idle" /\ req'[r].pc = "awaiting") =>
                  /\ req'[r].current_model_index = _current_model_index
                  /\ _current_model_index' = _current_model_index]_vars

\* A request succeeded after a fallback, and the request that arrived next
\* started at the model index it had started at.
C3_Witness ==
    \E r \in Requests :
        /\ r + 1 \in Requests
        /\ req[r].exit = "returned"
        /\ Len(req[r].calls) >= 2
        /\ req[r + 1].pc # "idle"
        /\ req[r + 1].num_models > 0
        /\ req[r + 1].current_model_index = req[r].current_model_index

\* C4. Round-robin keys: the j-th request to read the key cursor, in the order
\* of the reads and under any interleaving of the requests, obtains key index
\* (j - 1) mod N: N consecutive requests obtain N distinct indices in cyclic
\* order and the next one obtains the first again; each read returns the value
\* the cursor had before its own advance.
C4_RoundRobinKeys ==
    /\ \A j \in 1 .. Len(key_order) :
           req[key_order[j]].key_index = (j - 1) % NumKeys
    /\ NumKeys > 0 => _current_key_index = Len(key_order) % NumKeys

\* With two keys or more, N + 1 requests have read the cursor, the last one
\* while an earlier one was still in flight, and it got the first key again.
C4_Witness ==
    /\ NumKeys >= 2
    /\ Len(key_order) = NumKeys + 1
    /\ req[key_order[NumKeys + 1]].key_index = req[key_order[1]].key_index
    /\ \E j \in 1 .. NumKeys : req[key_order[j]].pc = "awaiting"

\* C5. Terminal failure status: a request that failed on every model is
\* answered with the status of its last upstream attempt: 429, the upstream's
\* own status, or 503 for a transport error.
C5_TerminalFailureStatus ==
    \A r \in Requests :
        AllModelsFailed(r) => req[r].status_code = StatusOfLastAttempt(r)

\* C6 as stated: every request that was answered, a rejected body included,
\* advanced the key cursor exactly once.
C6_KeyCursorOncePerRequest_Original ==
    \A r \in Requests :
        (Done(r) /\ NumKeys > 0) => KeyReads(r) = 1

\* C6, amended. A request whose body is a JSON object advances the key cursor
\* exactly once (mod the number of keys), whatever its outcome and however many
\* models it attempts; a request rejected for its body does not advance it.
C6_KeyCursorOncePerRequest ==
    /\ \A r \in Requests :
           req[r].pc # "idle" =>
               KeyReads(r) = IF req[r].body = "object" /\ NumKeys > 0
                             THEN 1 ELSE 0
    /\ NumKeys > 0 =>
           _current_key_index =
               Cardinality({r \in Requests : req[r].pc # "idle"
                                             /\ req[r].body = "object"}) % NumKeys

\* A request that tried every one of three models ended in failure, another was
\* rejected for its body, and the cursor has moved by one.
C6_Witness ==
    \E r, q \in Requests :
        /\ NumKeys = 2
        /\ Done(r) /\ Len(req[r].calls) = 3 /\ req[r].status_code # 200
        /\ Done(q) /\ req[q].body = "invalid_json"
        /\ \A p \in Requests \ {r, q} : req[p].pc = "idle"
        /\ _current_key_index = 1

\* C7 as stated: every request answered while the key list is empty got 503.
C7_NoKeys_Original ==
    \A r \in Requests :
        (Done(r) /\ NumKeys = 0) =>
            /\ req[r].status_code = 503
            /\ req[r].calls = <<>>
            /\ _current_key_index = 0 /\ _current_model_index = 0
            /\ is_running

\* C7, amended. A request with a JSON-object body handled while the key list is
\* empty is answered 503 with no upstream call made, both cursors unchanged and
\* nothing recorded; the server stays running and accepts the next request.
C7_NoKeys ==
    \A r \in Requests :
        (req[r].pc # "idle" /\ req[r].body = "object" /\ NumKeys = 0) =>
            /\ Done(r)
            /\ req[r].status_code = 503
            /\ req[r].calls = <<>>
            /\ _current_key_index = 0 /\ _current_model_index = 0
            /\ intercepted_requests = <<>>
            /\ is_running
            /\ (r + 1 \in Requests /\ req[r + 1].pc = "idle") =>
                   ENABLED chat_completions(r + 1, "object", FALSE)

\* Two requests in a row were answered 503 for want of a key.
C7_Witness ==
    /\ NumKeys = 0
    /\ NumModels > 0
    /\ req[1].body = "object" /\ req[1].status_code = 503
    /\ req[2].body = "object" /\ req[2].status_code = 503

\* C8. No-models failure: a request with a JSON-object body handled while the
\* model list is empty and the key list is not is answered 503, with no
\* upstream call made and the model cursor unchanged.
C8_NoModels ==
    \A r \in Requests :
        (Done(r) /\ req[r].body = "object" /\ NumKeys > 0 /\ NumModels = 0) =>
            /\ req[r].status_code = 503
            /\ req[r].calls = <<>>
            /\ _current_model_index = 0

StreamLines == split_lines(Flatten(captured_chunks), <<>>)

\* What a frame contributes to the display body.
frame_content(line) ==
    IF is_data_line(line) /\ json_content(Tail(line)).exc = "none"
    THEN json_content(Tail(line)).content
    ELSE <<>>

RECURSIVE content_of_frames(_)
content_of_frames(lines) ==
    IF lines = <<>> THEN <<>>
    ELSE frame_content(Head(lines)) \o content_of_frames(Tail(lines))

\* The stream holds nothing but well-formed frames and blank lines.
OnlyWellFormedFrames ==
    \A j \in 1 .. Len(StreamLines) :
        StreamLines[j] \in {<<>>, <<"data: ", "{He", "}">>, <<"data: ", "{llo", "}">>,
                            <<"data: ", "{role", "}">>, <<"data: ", "[DONE]">>}

\* C10. Streaming accumulation: when a stream of well-formed frames has been
\* delivered, in whatever chunks, and has ended, the display body is the
\* concatenation of the content of its data frames (the raw body if they hold
\* none), and the frame that yielded the last content was followed by a
\* notification that carried all of it with streaming_complete = FALSE.
C10_StreamingAccumulation ==
    (gen_pc = "closed" /\ stream_pending = <<>> /\ captured_chunks # <<>>
        /\ OnlyWellFormedFrames) =>
        LET expected == content_of_frames(StreamLines)
        IN /\ response.body = IF expected # <<>> THEN expected
                              ELSE Flatten(captured_chunks)
           /\ expected # <<>> =>
                 \E j \in 1 .. Len(notifications) :
                     /\ ~notifications[j].streaming_complete
                     /\ notifications[j].streaming_content = expected

\* The last call of on_streaming_update carried the finished record.
FinalNotificationSent ==
    /\ notifications # <<>>
    /\ notifications[Len(notifications)].streaming_complete
    /\ notifications[Len(notifications)] = response

\* C11. Malformed-frame resilience: whatever frames the stream holds, every
\* chunk the generator took from the upstream was forwarded to the client,
\* the extracted content holds nothing but the content of well-formed frames,
\* and a generator that has taken a chunk and has ended has sent the final
\* notification.
C11_MalformedFrameResilience ==
    /\ forwarded = captured_chunks
    /\ \A j \in 1 .. Len(extracted_content) :
           extracted_content[j] \in {"He", "llo"}
    /\ (gen_pc = "closed" /\ captured_chunks # <<>>) => FinalNotificationSent

\* C12. Stream finalisation: when the generator of a recorded streaming
\* exchange has ended, after a normal end of the upstream stream, an error of
\* it, or no chunk at all, the record has streaming_complete = TRUE and
\* is_streaming = FALSE, its raw body, display body and latency are filled in,
\* and the final notification was sent.
C12_StreamFinalisation ==
    gen_pc = "closed" =>
        /\ response.streaming_complete
        /\ ~response.is_streaming
        /\ response.raw_body = Flatten(captured_chunks)
        /\ response.body # StreamingResponse.body
        /\ response.latency_ms # "none"
        /\ FinalNotificationSent

\* C13. No upstream connection leak: every streamed upstream response a
\* request has opened is closed, or is in the hands of a capture generator
\* (which closes it when it exits), by the time the request tries its next
\* model or is answered.
C13_NoUpstreamConnectionLeak ==
    \A r \in Requests : req[r].unclosed = 0

\* C14. Buffer eviction: with capacity k = max_requests, after n recordings
\* since construction or the last clear, get_requests() is the last min(n, k)
\* recorded exchanges in the order of their recording, and the buffer never
\* holds more than k entries.
C14_BufferEviction ==
    LET n == Len(recorded_log)
        m == IF n < max_requests THEN n ELSE max_requests
    IN /\ get_requests = SubSeq(recorded_log, n - m + 1, n)
       /\ Len(intercepted_requests) <= max_requests

\* More exchanges were recorded than the buffer holds, by different requests,
\* and the oldest is gone.
C14_Witness ==
    /\ Len(recorded_log) > max_requests
    /\ Len(get_requests) = max_requests
    /\ get_requests[1] # recorded_log[1]
    /\ get_requests[1].request # get_requests[max_requests].request

\* C15. Callback isolation: whether the callbacks raise or return, (1) the
\* streaming 200 is recorded and returned to the caller and the cursors stay,
\* (2) a chunk whose scan raises nothing is forwarded, leaves the generator
\* running, the buffer and the cursors as they are, and is notified about if
\* it held content, and (3) a generator that ends with a decodable capture
\* attempts the final notification.
C15_CallbackIsolation ==
    [][/\ (gen_pc = "opening" /\ gen_pc' # "opening") =>
              /\ gen_pc' = "iterating"
              /\ req'[1].exit = "returned" /\ req'[1].status_code = 200
              /\ Len(intercepted_requests') = Len(intercepted_requests) + 1
              /\ Len(on_intercept_calls') = Len(on_intercept_calls) + 1
              /\ _current_key_index' = _current_key_index
              /\ _current_model_index' = _current_model_index
       /\ (gen_pc = "iterating" /\ captured_chunks' # captured_chunks) =>
              LET chunk == Last(captured_chunks')
                  p == process_chunk(chunk, extracted_content)
              IN p.exc = "none" =>
                    /\ forwarded' = Append(forwarded, chunk)
                    /\ gen_pc' = "iterating"
                    /\ intercepted_requests' = intercepted_requests
                    /\ _current_key_index' = _current_key_index
                    /\ _current_model_index' = _current_model_index
                    /\ p.had_content =>
                          /\ Len(notifications') = Len(notifications) + 1
                          /\ Last(notifications').streaming_content = p.extracted
       /\ (gen_pc = "iterating" /\ gen_pc' = "closed"
             /\ captured_chunks' # <<>>
             /\ ~decode_fails(Flatten(captured_chunks'))) =>
              /\ Len(notifications') > Len(notifications)
              /\ Last(notifications').streaming_complete]_vars

\* Every call of a callback raised: on_intercept, the notifications of two
\* chunks with content, and the final one; both chunks were forwarded.
C15_Witness ==
    /\ gen_pc = "closed"
    /\ on_intercept_calls = <<TRUE>>
    /\ notification_raised = <<TRUE, TRUE, TRUE>>
    /\ Len(forwarded) = 2
    /\ forwarded = captured_chunks
    /\ response.body = <<"He", "llo">>
    /\ Len(intercepted_requests) = 1

StartRank ==
    IF start_pc = "idle" THEN 0 - 1
    ELSE 3 * (start_attempts - attempt)
         + (CASE start_pc = "polling" -> 2
              [] start_pc = "teardown" -> 1
              [] OTHER -> 0)

\* C18. Bounded start: start() never runs more than four bind-and-poll
\* cycles; each of its steps brings it nearer to its end; a cycle begins only
\* when the server and the task of the cycle before are gone; and the step
\* that raises comes after the fourth cycle and leaves is_running false, no
\* server and no server task.
C18_BoundedStart ==
    [][/\ attempt' <= 4
       /\ (start_pc # "idle" /\ <<start_pc', attempt'>> # <<start_pc, attempt>>) =>
              StartRank' < StartRank
       /\ (attempt >= 1 /\ attempt' = attempt + 1) =>
              server = "none" /\ server_task = "none"
       /\ (start_pc # "idle" /\ start_pc' = "idle") =>
              \/ start_result' = "returned" /\ is_running'
              \/ /\ start_result' = "raised"
                 /\ attempt = 4
                 /\ ~is_running'
                 /\ server' = "none"
                 /\ server_task' = "none"]_vars

\* start() has raised after four cycles and has left nothing behind.
C18_Witness ==
    /\ start_result = "raised"
    /\ start_pc = "idle"
    /\ attempt = 4
    /\ ~is_running
    /\ server = "none"
    /\ server_task = "none"

\* C19. Graceful drain: a request that has made an upstream call, and so was
\* accepted while the client was usable, never finds the client closed or
\* gone at a later attempt.
C19_GracefulDrain ==
    \A r \in Requests : req[r].calls # <<>> => ~req[r].client_lost

\* C20. Cursor range: each cursor is below the length of its list when the
\* list is not empty, and the key index a request obtained addressed a key.
C20_CursorRange ==
    /\ NumKeys > 0 => _current_key_index \in 0 .. NumKeys - 1
    /\ NumModels > 0 => _current_model_index \in 0 .. NumModels - 1
    /\ \A r \in Requests : req[r].key_index # NoIndex => req[r].api_key # <<>>

\* The request passed the body parsing and the key selection.
Accepted(r) == req[r].body = "object" /\ req[r].key_index # NoIndex

\* C21. Every exchange is mirrored: with logging enabled, a request that was
\* accepted and tried its models has an exchange appended to the buffer by
\* the time it is answered, whether it ends in success or in terminal failure.
C21_EveryExchangeMirrored ==
    \A r \in Requests :
        (log_requests /\ Accepted(r) /\ Done(r) /\ req[r].calls # <<>>
            /\ req[r].exit \in {"returned", "raised_in_loop", "raised_exhausted"}) =>
            req[r].recorded

\* C22. Model override: every upstream call of a request names, in its body,
\* the configured model at index (start + i) mod N of its attempt i and never
\* the model the inbound body named, and carries in its Authorization header
\* the key at the index the request obtained, the same in all its attempts.
C22_ModelOverride ==
    \A r \in Requests :
        \A j \in 1 .. Len(req[r].calls) :
            /\ req[r].calls[j].model # InboundModel
            /\ req[r].calls[j].model =
                   openrouter_api_models[
                       ((req[r].current_model_index + j - 1) % req[r].num_models) + 1]
            /\ req[r].calls[j].key = openrouter_api_keys[req[r].key_index + 1]
            /\ req[r].calls[j].key = req[r].calls[1].key

\* A request that obtained the second key and started at the second model
\* has called all three models.
C22_Witness ==
    \E r \in Requests :
        /\ req[r].key_index = 1
        /\ req[r].current_model_index = 1
        /\ Len(req[r].calls) = 3
        /\ req[r].calls[3].model = <<"model", 1>>

\* C29. Sequential ordered attempts: a request reads the model cursor once,
\* when it begins; its calls go to the models start, start + 1, ... (mod N)
\* in this order, whatever other requests do to the cursor meanwhile, so no
\* model is called twice; and a call is made only in the step that begins
\* the request or in the step that receives the outcome of its previous call.
C29_SequentialOrderedAttempts ==
    [][\A r \in Requests :
          LET old == req[r]
              new == req'[r]
          IN /\ old.pc = "idle" =>
                    (new.num_models > 0 =>
                        new.current_model_index = _current_model_index)
             /\ old.pc # "idle" =>
                    new.current_model_index = old.current_model_index
             /\ \A j \in 1 .. Len(new.calls) :
                    new.calls[j].model_index =
                        (new.current_model_index + j - 1) % new.num_models
             /\ \A j, k \in 1 .. Len(new.calls) :
                    j # k => new.calls[j].model_index # new.calls[k].model_index
             /\ new.pc = "awaiting" => Len(new.calls) = new.i + 1
             /\ Len(new.calls) # Len(old.calls) =>
                    /\ Len(new.calls) = Len(old.calls) + 1
                    /\ SubSeq(new.calls, 1, Len(old.calls)) = old.calls
                    /\ \/ old.pc = "idle" /\ old.calls = <<>>
                       \/ /\ old.pc = "awaiting"
                          /\ new.i = old.i + 1
                          /\ new.last_outcome # NoOutcome]_vars

\* A request has called all three models, the second and the third after
\* another request had moved the cursor away from where this one started.
C29_Witness ==
    \E r \in Requests :
        /\ Len(req[r].calls) = 3
        /\ req[r].current_model_index = 0
        /\ _current_model_index = 1
        /\ \E q \in Requests \ {r} :
               /\ req[q].exit = "raised_exhausted"
               /\ req[r].pc = "awaiting"

\* C30. Intercept precedes streaming updates: the step that calls
\* on_intercept for the streaming exchange also appends it to the buffer,
\* comes before any chunk is forwarded and before any call of
\* on_streaming_update, and leaves the exchange with is_streaming = TRUE,
\* streaming_complete = FALSE and no streaming content; no chunk is forwarded
\* and no update is notified before that step.
C30_InterceptPrecedesUpdates ==
    [][/\ (forwarded' # <<>> \/ notifications' # <<>>) =>
              /\ on_intercept_calls' # <<>>
              /\ req'[1].recorded
       /\ on_intercept_calls' # on_intercept_calls =>
              /\ forwarded' = <<>>
              /\ notifications' = <<>>
              /\ Len(intercepted_requests') = Len(intercepted_requests) + 1
              /\ Last(intercepted_requests').is_streaming
              /\ response'.is_streaming
              /\ ~response'.streaming_complete
              /\ response'.streaming_content = <<>>]_vars

\* The exchange was intercepted, then two chunks were forwarded and notified
\* about, and the stream has ended.
C30_Witness ==
    /\ gen_pc = "closed"
    /\ Len(on_intercept_calls) = 1
    /\ Len(forwarded) = 2
    /\ Len(notifications) = 3
    /\ response.streaming_complete

\* C23. GET /models: a step of get_models leaves the key cursor, the model
\* cursor, the buffer and the chat-completions requests as they are,
\* whatever the upstream answers; a request makes at most one upstream call,
\* with the first configured key; and without keys it is answered 503 with no
\* call.
C23_ModelsNoRotation ==
    [][/\ models_req' # models_req =>
              /\ _current_key_index' = _current_key_index
              /\ _current_model_index' = _current_model_index
              /\ intercepted_requests' = intercepted_requests
              /\ req' = req
       /\ Len(models_req'.calls) <= 1
       /\ models_req'.calls # <<>> =>
              models_req'.calls[1].key = openrouter_api_keys[1]
       /\ (models_req'.pc = "done" /\ NumKeys = 0) =>
              /\ models_req'.status_code = 503
              /\ models_req'.calls = <<>>]_vars

\* The second GET /models was answered with the upstream's 429 while the key
\* cursor stood at the second key and an exchange was in the buffer.
C23_Witness ==
    /\ models_req.n = 2
    /\ models_req.pc = "done"
    /\ models_req.status_code = 429
    /\ models_req.calls = <<[key |-> <<"key", 1>>]>>
    /\ _current_key_index = 1
    /\ intercepted_requests # <<>>

\* C24. No key material in errors: the detail text of an error answer to a
\* chat completion quotes no key value, so that it is the same whatever the
\* values of the configured keys are.
C24_NoKeyMaterialInErrors ==
    \A r \in Requests :
        (req[r].pc = "done" /\ req[r].exit \in {"raised_in_loop", "raised_exhausted"})
            => last_error_detail[r].quoted = {}

\* The number of items the list shows for exchange x.
Items(x) ==
    Cardinality({j \in 1 .. Len(request_list) : request_list[j].intercepted = x})

ListExchanges ==
    [request : 1 .. MaxListRequests, model_index : {0}, status_code : {200},
     is_streaming : BOOLEAN]

C26_ClearEmptiesView ==
    cleared => (intercepted_requests = <<>> /\ request_list = <<>>)

\* The toggle button shows a transition that nothing will end: no coroutine of
\* the runner is scheduled or running, no signal is queued, no restart is due
\* and the server does not run.
Stuck ==
    /\ main_window.toggle_text \in {"Starting...", "Stopping..."}
    /\ ~main_window.toggle_enabled
    /\ async_runner.loop = "running"
    /\ async_runner.start_co = "none"
    /\ async_runner.stop_co = "none"
    /\ signals = <<>>
    /\ main_window.restart_timers = 0
    /\ ~is_running

\* C27. No stuck transition: the toggle button never stays in "Starting..." or
\* "Stopping..." with nothing left that would notify the window.
C27_NoStuckTransition == ~Stuck

C31_ExhaustionMovesNextStart ==
    [][\A r \in Requests :
          (/\ req[r].pc = "awaiting"
           /\ req'[r].exit = "raised_exhausted"
           /\ req[r].num_models >= 2) =>
              _current_model_index' # req[r].current_model_index]_vars

\* The exchanges appended for request r since the last clear.
RecordsOf(r) ==
    Cardinality({j \in 1 .. Len(recorded_log) : recorded_log[j].request = r})

\* C32. At most one record per request: however many attempts a request made,
\* at most one exchange was appended to the buffer for it.
C32_AtMostOneRecord ==
    \A r \in Requests : RecordsOf(r) <= 1

\* The notifications that carry streaming_complete = true.
CompleteNotifications(notifs) ==
    {j \in 1 .. Len(notifs) : notifs[j].streaming_complete}

\* C33. Immutable after completion: once the record has streaming_complete =
\* true no step changes it or sends a notification for it; a notification
\* with streaming_complete = true is the last one; and the step that ends the
\* generator leaves exactly one such notification.
C33_ImmutableAfterCompletion ==
    [][/\ response.streaming_complete =>
              /\ response' = response
              /\ notifications' = notifications
       /\ \A j \in CompleteNotifications(notifications') :
              j = Len(notifications')
       /\ (gen_pc = "iterating" /\ gen_pc' = "closed") =>
              Cardinality(CompleteNotifications(notifications')) = 1]_vars

\* C34. Upstream client lifecycle: with no start() and no stop() at work, the
\* upstream client is open if the server is running and there is none if it
\* is not; and a step only creates a client where there was none.
C34_ClientLifecycle ==
    [][(start_pc' = "idle" /\ stop_pc' = "idle") =>
          /\ is_running' => _client' = "open"
          /\ ~is_running' => _client' = "none"
          /\ (_client' = "open" /\ _client # "open") => _client = "none"]_vars

\* C35. Latency origin: the exchange recorded for a request that was answered
\* carries the time of the request's arrival as its timestamp, and the latency
\* of a non-streaming one spans every upstream call the request made.
C35_LatencyOrigin ==
    \A r \in Requests :
        (req[r].recorded /\ req[r].exit = "returned") =>
            /\ req[r].timestamp = 0
            /\ ~req[r].is_streaming => req[r].latency_ms = Len(req[r].calls)

\* C36. Restart on port change: once a save has stopped the running proxy and
\* set the delayed start, the proxy is eventually running, with its listener
\* on the saved port, and the window is settled on it.
C36_RestartOnPortChange ==
    (main_window.restart_timers > 0)
        ~> (/\ is_running
            /\ server_task = "serving"
            /\ server_port = main_window.config_port)

\* C37. Logging toggle is observation-only: whether log_requests is on or
\* off, a request whose upstream call is answered 200 (with a JSON body when
\* it is not streamed) is answered 200 from that call, as it is with logging
\* on, makes no further upstream call and leaves the model cursor alone.
C37_LoggingObservationOnly ==
    [][\A r \in Requests :
          (/\ req[r].pc = "awaiting"
           /\ req'[r] # req[r]
           /\ req'[r].last_outcome.kind = "response"
           /\ req'[r].last_outcome.status = 200
           /\ (req[r].is_streaming \/ req'[r].last_outcome.body_is_json)) =>
              /\ req'[r].exit = "returned"
              /\ req'[r].status_code = 200
              /\ req'[r].calls = req[r].calls
              /\ _current_model_index' = _current_model_index]_vars

\* The notifications sent for the streaming exchange, in their order: the one
\* of on_intercept, which carries the record as it was built, then those of
\* on_streaming_update.
NotificationsSent ==
    (IF on_intercept_calls # <<>> THEN <<StreamingResponse>> ELSE <<>>)
        \o notifications

IsPrefix(a, b) == Len(a) <= Len(b) /\ SubSeq(b, 1, Len(a)) = a

\* C38. Streaming content grows monotonically: over the notifications sent
\* for one streaming exchange (on-intercept, streaming updates, final update)
\* the streaming content of each is a prefix of the content of the next, and
\* none carries is_streaming = true together with streaming_complete = true.
C38_StreamingContentGrows ==
    /\ \A j \in 1 .. Len(NotificationsSent) - 1 :
          IsPrefix(NotificationsSent[j].streaming_content,
                   NotificationsSent[j + 1].streaming_content)
    /\ \A j \in 1 .. Len(NotificationsSent) :
          ~(NotificationsSent[j].is_streaming
            /\ NotificationsSent[j].streaming_complete)

\* The exchange is over after on-intercept, two updates with growing content
\* and the final update.
C38_Witness ==
    /\ gen_pc = "closed"
    /\ on_intercept_calls # <<>>
    /\ Len(notifications) = 3
    /\ notifications[1].streaming_content # <<>>
    /\ notifications[2].streaming_content # notifications[1].streaming_content
    /\ notifications[3].streaming_complete

====
